---- MODULE Spec2Model ----
(***************************************************************************)
(* Verification model of the scene-command pipeline of heyadamcom:         *)
(*   - IncrementalCommandParser      (src/app/api/chat/route.ts)           *)
(*   - extractSceneCommands          (src/unnamed/part_000)                *)
(*   - the scene store / dispatcher  (src/unnamed/part_002)                *)
(*   - the ThreeBackground component (src/unnamed/part_001)                *)
(* Text is modelled as sequences of one-character strings.                 *)
(***************************************************************************)
EXTENDS Integers, Sequences, FiniteSets, TLC

VARIABLES
    \* ---- stream harness (route.ts POST loop feeding parser.addChunk) ----
    plan,           \* the pieces of the model's text stream, in order
    emitted,        \* concatenation of all addChunk results so far
    emittedAt,      \* buffer index of the closing brace of each emitted command
    splitTags,      \* the tags a fragment boundary has fallen inside of
    raised,         \* TRUE once an exception escaped addChunk
    \* ---- IncrementalCommandParser fields ----
    buffer, processedIndex, insideBlock, jsonBuffer, braceDepth, inString,
    escapeNext,
    \* ---- scene store (zustand state) and dispatcher harness ----
    objects, lights, camera, config,
    objectKeys,     \* the own keys of state.objects in enumeration order
    lightKeys,      \* the own keys of state.lights in enumeration order
    objectsVer,     \* identity of the state.objects reference (0: initial)
    lightsVer,      \* identity of the state.lights reference (0: initial)
    cameraVer,      \* identity of the state.camera reference (0: initial)
    prevDoc,        \* the document before the latest applyCommand
    lastCmd,        \* the latest command handed to applyCommand
    threw,          \* TRUE when the latest applyCommand raised
    steps,          \* number of commands applied so far
    \* ---- ThreeBackground refs (part_001 lines 2219-2225) ----
    meshesRef,          \* Map id -> live mesh
    lightsRef,          \* Map id -> live light
    animationStatesRef, \* Map id -> animation clock
    objectConfigsRef,   \* the objects mapping of the latest objects effect
    objectsSeen,        \* the objects reference of the latest objects effect
    lightsSeen,         \* the lights reference of the latest lights effect
    lastSync,           \* what the latest run of the effects did
    deltas,             \* the frame deltas since the latest objects effect
    crashed,            \* TRUE once an effect has raised
    \* ---- camera of ThreeBackground (part_001 lines 2234-2237, 2249) ----
    cameraSeen,             \* the camera reference of the latest camera effect
    cameraConfigRef,        \* the camera record the frames read
    cameraOrbitAngleRef, cameraOrbitRadiusRef, cameraOrbitHeightRef,
    threeCamera,            \* the position of the live camera
    \* ---- the response stream (route.ts POST) and its reader (useChat) ----
    written,        \* the parts handed to writer.write, in order
    textStarted,    \* POST's flag: the text-start part has been written
    clientAt,       \* the number of parts the client has handled
    applied         \* the commands onData has handed to applyCommand

parserVars == <<buffer, processedIndex, insideBlock, jsonBuffer, braceDepth,
                inString, escapeNext>>
streamVars == <<plan, emitted, emittedAt, splitTags, raised>>
storeVars  == <<objects, lights, camera, config, objectKeys, lightKeys,
                objectsVer, lightsVer, cameraVer, prevDoc, lastCmd, threw,
                steps>>
sceneVars  == <<meshesRef, lightsRef, animationStatesRef, objectConfigsRef,
                objectsSeen, lightsSeen, lastSync, deltas, crashed,
                cameraSeen, cameraConfigRef, cameraOrbitAngleRef,
                cameraOrbitRadiusRef, cameraOrbitHeightRef, threeCamera>>
pipeVars   == <<written, textStarted, clientAt, applied>>
vars       == <<streamVars, parserVars, storeVars, sceneVars, pipeVars>>

(***************************************************************************)
(* Characters and the two delimiter tags                                   *)
(***************************************************************************)
OpenTag  == <<"<","s","c","e","n","e","-","c","o","m","m","a","n","d","s",">">>
CloseTag == <<"<","/","s","c","e","n","e","-","c","o","m","m","a","n","d","s",">">>

\* remaining.startsWith(tag), remaining = buffer.slice(idx)   (idx 0-based)
StartsWithAt(buf, idx, tag) ==
    /\ idx + Len(tag) <= Len(buf)
    /\ \A i \in 1..Len(tag) : buf[idx + i] = tag[i]

\* remaining.length < tag.length && tag.startsWith(remaining)
PartialTagAt(buf, idx, tag) ==
    /\ Len(buf) - idx < Len(tag)
    /\ \A i \in 1..(Len(buf) - idx) : buf[idx + i] = tag[i]

(***************************************************************************)
(* JSON.parse over the model's characters.  The alphabet has no digit and  *)
(* none of the letters t, r, u, f, l, so the number and literal            *)
(* productions and the \u escape have no instance: a value is a string,    *)
(* an object or an array.  Values are tagged tuples:                       *)
(*   <<"str", chars>>, <<"arr", seq of values>>, <<"obj", key -> value>>.  *)
(***************************************************************************)
JsonWs      == {" ", "\n", "\t", "\r"}
JsonControl == {"\n", "\t", "\r"}
Unescape ==
    [c \in {"\"", "\\", "/", "b", "f", "n", "r", "t"} |->
        CASE c = "\"" -> "\""
          [] c = "\\" -> "\\"
          [] c = "/"  -> "/"
          [] c = "b"  -> "BS"
          [] c = "f"  -> "FF"
          [] c = "n"  -> "\n"
          [] c = "r"  -> "\r"
          [] c = "t"  -> "\t"]

JStr(s) == <<"str", s>>
JArr(a) == <<"arr", a>>
\* an object literal built from its members in order: a repeated key keeps
\* the value of its last occurrence
JObj(ps) ==
    <<"obj", [k \in {ps[i][1] : i \in DOMAIN ps} |->
                ps[CHOOSE i \in DOMAIN ps :
                       /\ ps[i][1] = k
                       /\ \A j \in DOMAIN ps : j > i => ps[j][1] # k][2]]>>

ParseFail == [ok |-> FALSE, val |-> JStr(<<>>), pos |-> 0]

RECURSIVE SkipWs(_, _)
SkipWs(s, i) ==
    IF i <= Len(s) /\ s[i] \in JsonWs THEN SkipWs(s, i + 1) ELSE i

\* the characters of a string literal; i is the index after the opening quote
RECURSIVE ParseChars(_, _, _)
ParseChars(s, i, acc) ==
    IF i > Len(s) THEN ParseFail
    ELSE IF s[i] = "\"" THEN [ok |-> TRUE, val |-> acc, pos |-> i + 1]
    ELSE IF s[i] = "\\" THEN
        IF i + 1 > Len(s) \/ s[i + 1] \notin DOMAIN Unescape THEN ParseFail
        ELSE ParseChars(s, i + 2, Append(acc, Unescape[s[i + 1]]))
    ELSE IF s[i] \in JsonControl THEN ParseFail
    ELSE ParseChars(s, i + 1, Append(acc, s[i]))

RECURSIVE ParseValue(_, _), ParseMembers(_, _, _), ParseElements(_, _, _)
\* i is the index of the first character of the value (whitespace skipped)
ParseValue(s, i) ==
    IF i > Len(s) THEN ParseFail
    ELSE IF s[i] = "\"" THEN
        LET r == ParseChars(s, i + 1, <<>>)
        IN IF r.ok THEN [ok |-> TRUE, val |-> JStr(r.val), pos |-> r.pos]
           ELSE ParseFail
    ELSE IF s[i] = "{" THEN
        LET j == SkipWs(s, i + 1)
        IN IF j <= Len(s) /\ s[j] = "}"
           THEN [ok |-> TRUE, val |-> JObj(<<>>), pos |-> j + 1]
           ELSE ParseMembers(s, j, <<>>)
    ELSE IF s[i] = "[" THEN
        LET j == SkipWs(s, i + 1)
        IN IF j <= Len(s) /\ s[j] = "]"
           THEN [ok |-> TRUE, val |-> JArr(<<>>), pos |-> j + 1]
           ELSE ParseElements(s, j, <<>>)
    ELSE ParseFail

\* members of an object; i is the index of the opening quote of the next key
ParseMembers(s, i, acc) ==
    IF i > Len(s) \/ s[i] # "\"" THEN ParseFail
    ELSE
      LET k == ParseChars(s, i + 1, <<>>)
      IN IF ~k.ok THEN ParseFail
         ELSE
           LET c == SkipWs(s, k.pos)
           IN IF c > Len(s) \/ s[c] # ":" THEN ParseFail
              ELSE
                LET v == ParseValue(s, SkipWs(s, c + 1))
                IN IF ~v.ok THEN ParseFail
                   ELSE
                     LET m    == SkipWs(s, v.pos)
                         acc2 == Append(acc, <<k.val, v.val>>)
                     IN IF m > Len(s) THEN ParseFail
                        ELSE IF s[m] = "}"
                          THEN [ok |-> TRUE, val |-> JObj(acc2), pos |-> m + 1]
                        ELSE IF s[m] = ","
                          THEN ParseMembers(s, SkipWs(s, m + 1), acc2)
                        ELSE ParseFail

\* elements of an array; i is the index of the next element
ParseElements(s, i, acc) ==
    LET v == ParseValue(s, i)
    IN IF ~v.ok THEN ParseFail
       ELSE
         LET m    == SkipWs(s, v.pos)
             acc2 == Append(acc, v.val)
         IN IF m > Len(s) THEN ParseFail
            ELSE IF s[m] = "]"
              THEN [ok |-> TRUE, val |-> JArr(acc2), pos |-> m + 1]
            ELSE IF s[m] = ","
              THEN ParseElements(s, SkipWs(s, m + 1), acc2)
            ELSE ParseFail

\* JSON.parse(text): ok = FALSE stands for the SyntaxError it throws
JsonParse(s) ==
    LET r == ParseValue(s, SkipWs(s, 1))
    IN IF r.ok /\ SkipWs(s, r.pos) > Len(s) THEN r ELSE ParseFail

(***************************************************************************)
(* IncrementalCommandParser.extractNewCommands                             *)
(* The parser is the record p: its seven fields, the commands list of the  *)
(* running call, the buffer index of each pushed command's closing brace   *)
(* (closedAt, bookkeeping only) and raised (an exception left the call).   *)
(***************************************************************************)
\* String.prototype.trim
RECURSIVE TrimLeft(_)
TrimLeft(s) ==
    IF s # <<>> /\ Head(s) \in JsonWs THEN TrimLeft(Tail(s)) ELSE s
RECURSIVE TrimRight(_)
TrimRight(s) ==
    IF s # <<>> /\ s[Len(s)] \in JsonWs
    THEN TrimRight(SubSeq(s, 1, Len(s) - 1)) ELSE s
Trim(s) == TrimRight(TrimLeft(s))

\* variant: the open tag leaves the string and escape flags as they are
OpenTagFound_KeepsFlags(p) ==
    [p EXCEPT !.insideBlock = TRUE, !.jsonBuffer = <<>>, !.braceDepth = 0,
              !.processedIndex = p.processedIndex + Len(OpenTag)]

\* variant: the open tag is skipped and the block is not entered
OpenTagFound_StaysOutside(p) ==
    [p EXCEPT !.processedIndex = p.processedIndex + Len(OpenTag)]

\* lines 49-57: the open tag starts at the cursor
OpenTagFound(p) ==
    [p EXCEPT !.insideBlock = TRUE, !.jsonBuffer = <<>>, !.braceDepth = 0,
              !.inString = FALSE, !.escapeNext = FALSE,
              !.processedIndex = p.processedIndex + Len(OpenTag)]

\* variant: no wait for the rest of a tag that a fragment boundary has cut
PartialOpenTag_NoWait(p) == FALSE

\* line 59: the buffer tail may be the beginning of the open tag
PartialOpenTag(p) == PartialTagAt(p.buffer, p.processedIndex, OpenTag)

\* variant: the close tag leaves the block with the capture as it is
CloseTagFound_KeepsCapture(p) ==
    [p EXCEPT !.insideBlock = FALSE,
              !.processedIndex = p.processedIndex + Len(CloseTag)]

\* variant: the close tag is skipped and the block is not left
CloseTagFound_StaysInside(p) ==
    [p EXCEPT !.jsonBuffer = <<>>, !.braceDepth = 0,
              !.processedIndex = p.processedIndex + Len(CloseTag)]

\* lines 68-74: the close tag starts at the cursor
CloseTagFound(p) ==
    [p EXCEPT !.insideBlock = FALSE, !.jsonBuffer = <<>>, !.braceDepth = 0,
              !.processedIndex = p.processedIndex + Len(CloseTag)]

\* variant: the length test alone, without tag.startsWith(remaining)
PartialCloseTag_LengthOnly(p) ==
    Len(p.buffer) - p.processedIndex < Len(CloseTag)

\* line 76: the buffer tail may be the beginning of the close tag
PartialCloseTag(p) == PartialTagAt(p.buffer, p.processedIndex, CloseTag)

\* variant: the character after a backslash is read as any other, so that
\* a quote toggles string mode
EscapedChar_AsPlain(p, char) ==
    [p EXCEPT !.escapeNext = FALSE,
              !.inString = IF char = "\"" THEN ~p.inString ELSE p.inString,
              !.jsonBuffer = Append(p.jsonBuffer, char),
              !.processedIndex = p.processedIndex + 1]

\* lines 81-86: the character after a backslash
EscapedChar(p, char) ==
    [p EXCEPT !.escapeNext = FALSE, !.jsonBuffer = Append(p.jsonBuffer, char),
              !.processedIndex = p.processedIndex + 1]

\* variant: the backslash does not arm the escape
Backslash_NoEscape(p, char) ==
    [p EXCEPT !.jsonBuffer = Append(p.jsonBuffer, char),
              !.processedIndex = p.processedIndex + 1]

\* lines 88-93: a backslash inside a string
Backslash(p, char) ==
    [p EXCEPT !.escapeNext = TRUE, !.jsonBuffer = Append(p.jsonBuffer, char),
              !.processedIndex = p.processedIndex + 1]

\* lines 95-100: a double quote toggles string mode, at any brace depth
Quote(p, char) ==
    [p EXCEPT !.inString = ~p.inString,
              !.jsonBuffer = Append(p.jsonBuffer, char),
              !.processedIndex = p.processedIndex + 1]

\* variant: an opening brace at depth 0 goes on with the capture buffer
OpenBrace_GoesOn(p, char) ==
    [p EXCEPT !.jsonBuffer = Append(p.jsonBuffer, char),
              !.braceDepth = p.braceDepth + 1,
              !.processedIndex = p.processedIndex + 1]

\* lines 103-112: an opening brace outside a string
OpenBrace(p, char) ==
    [p EXCEPT !.jsonBuffer = IF p.braceDepth = 0 THEN <<"{">>
                             ELSE Append(p.jsonBuffer, char),
              !.braceDepth = p.braceDepth + 1,
              !.processedIndex = p.processedIndex + 1]

\* variant: commands.unshift instead of commands.push
TryParse_Unshift(p, text) ==
    LET r == JsonParse(text)
    IN IF r.ok
       THEN [p EXCEPT !.commands = <<r.val>> \o p.commands,
                      !.closedAt = <<p.processedIndex + 1>> \o p.closedAt]
       ELSE p

\* variant: JSON.parse outside of any try block
TryParse_NoCatch(p, text) ==
    LET r == JsonParse(text)
    IN IF r.ok
       THEN [p EXCEPT !.commands = Append(p.commands, r.val),
                      !.closedAt = Append(p.closedAt, p.processedIndex + 1)]
       ELSE [p EXCEPT !.raised = TRUE]

\* lines 120-125: try { commands.push(JSON.parse(jsonBuffer)) } catch { }
TryParse(p, text) ==
    LET r == JsonParse(text)
    IN IF r.ok
       THEN [p EXCEPT !.commands = Append(p.commands, r.val),
                      !.closedAt = Append(p.closedAt, p.processedIndex + 1)]
       ELSE p

\* line 115: this.braceDepth--
DecrementDepth(d) == d - 1

\* lines 114-130: a closing brace outside a string
CloseBrace(p, char) ==
    LET d  == DecrementDepth(p.braceDepth)
        jb == Append(p.jsonBuffer, char)
        p1 == [p EXCEPT !.braceDepth = d, !.jsonBuffer = jb]
    IN IF d = 0 /\ Trim(jb) # <<>>
       THEN LET p2 == TryParse(p1, jb)
            IN IF p2.raised THEN p2
               ELSE [p2 EXCEPT !.jsonBuffer = <<>>,
                               !.processedIndex = p.processedIndex + 1]
       ELSE [p1 EXCEPT !.processedIndex = p.processedIndex + 1]

\* lines 133-137: any other character
OtherChar(p, char) ==
    [p EXCEPT !.jsonBuffer = IF p.braceDepth > 0
                             THEN Append(p.jsonBuffer, char)
                             ELSE p.jsonBuffer,
              !.processedIndex = p.processedIndex + 1]

\* lines 43-138: one iteration of the scan loop; p is returned as it is when
\* the loop has ended (cursor at the end of the buffer, or break on a
\* possible partial tag)
LoopStep(p) ==
    IF p.raised \/ ~(p.processedIndex < Len(p.buffer)) THEN p
    ELSE
      LET char == p.buffer[p.processedIndex + 1]
      IN IF ~p.insideBlock THEN
              IF StartsWithAt(p.buffer, p.processedIndex, OpenTag)
                THEN OpenTagFound(p)
              ELSE IF PartialOpenTag(p) THEN p
              ELSE [p EXCEPT !.processedIndex = p.processedIndex + 1]
         ELSE IF StartsWithAt(p.buffer, p.processedIndex, CloseTag)
                THEN CloseTagFound(p)
         ELSE IF PartialCloseTag(p) THEN p
         ELSE IF p.escapeNext THEN EscapedChar(p, char)
         ELSE IF char = "\\" /\ p.inString THEN Backslash(p, char)
         ELSE IF char = "\"" /\ ~p.escapeNext THEN Quote(p, char)
         ELSE IF ~p.inString /\ char = "{" THEN OpenBrace(p, char)
         ELSE IF ~p.inString /\ char = "}" THEN CloseBrace(p, char)
         ELSE OtherChar(p, char)

\* k iterations of the loop
RECURSIVE Iterate(_, _)
Iterate(p, k) ==
    IF k <= 0 THEN p
    ELSE IF k = 1 THEN LoopStep(p)
    ELSE LET q == Iterate(p, k \div 2)
         IN IF q.raised THEN q ELSE Iterate(q, k - (k \div 2))

\* lines 39-141: the loop runs until it ends; every iteration that does not
\* end it advances the cursor, so the unscanned length bounds the iterations
extractNewCommands(p) == Iterate(p, Len(p.buffer) - p.processedIndex)

\* lines 19-26: a new IncrementalCommandParser
NewParser ==
    [buffer |-> <<>>, processedIndex |-> 0, insideBlock |-> FALSE,
     jsonBuffer |-> <<>>, braceDepth |-> 0, inString |-> FALSE,
     escapeNext |-> FALSE, commands |-> <<>>, closedAt |-> <<>>,
     raised |-> FALSE]

\* lines 31-34: addChunk(chunk) on parser p; commands starts empty per call
addChunk(p, chunk) ==
    extractNewCommands([p EXCEPT !.buffer = p.buffer \o chunk,
                                 !.commands = <<>>, !.closedAt = <<>>])

(***************************************************************************)
(* extractSceneCommands (part_000 lines 56-75): the static parse of a      *)
(* completed text                                                          *)
(***************************************************************************)
\* least 0-based index >= from at which tag starts in text, or -1
IndexOf(text, tag, from) ==
    LET hits == {i \in from..(Len(text) - Len(tag)) : StartsWithAt(text, i, tag)}
    IN IF hits = {} THEN -1
       ELSE CHOOSE i \in hits : \A j \in hits : i <= j

\* lines 62-71: parse one match; an array contributes its elements
PushParsed(commands, inner) ==
    LET r == JsonParse(Trim(inner))
    IN IF ~r.ok THEN commands
       ELSE IF r.val[1] = "arr" THEN commands \o r.val[2]
       ELSE Append(commands, r.val)

\* lines 57-74: regex.exec loop of /<scene-commands>([\s\S]*?)<\/scene-commands>/g
RECURSIVE ExecLoop(_, _, _)
ExecLoop(text, from, commands) ==
    LET o == IndexOf(text, OpenTag, from)
        c == IF o = -1 THEN -1 ELSE IndexOf(text, CloseTag, o + Len(OpenTag))
    IN IF c = -1 THEN commands
       ELSE ExecLoop(text, c + Len(CloseTag),
                     PushParsed(commands,
                                SubSeq(text, o + Len(OpenTag) + 1, c)))

extractSceneCommands(text) == ExecLoop(text, 0, <<>>)

(***************************************************************************)
(* The text streams fed to the parser: a stream is a plan, a sequence of   *)
(* pieces; a piece is a tag, an object text or a single character.         *)
(***************************************************************************)
PieceText(n) ==
    CASE n = "OPEN"  -> OpenTag
      [] n = "CLOSE" -> CloseTag
      \* {"a":"c"}
      [] n = "objA"  -> <<"{", "\"", "a", "\"", ":", "\"", "c", "\"", "}">>
      \* {"a":{"d":"}"}}      a nested object and a brace inside a string
      [] n = "objN"  -> <<"{", "\"", "a", "\"", ":", "{", "\"", "d", "\"", ":",
                          "\"", "}", "\"", "}", "}">>
      \* {"a":"\""}           an escaped quote inside a string
      [] n = "objE"  -> <<"{", "\"", "a", "\"", ":", "\"", "\\", "\"", "\"",
                          "}">>
      \* {"a":"</scene-commands>"}     the close tag inside a string
      [] n = "objT"  -> <<"{", "\"", "a", "\"", ":", "\"">> \o CloseTag
                        \o <<"\"", "}">>
      \* {a}                  balanced, does not parse
      [] n = "badP"  -> <<"{", "a", "}">>
      \* {"a}                 a quote that is never closed
      [] n = "badQ"  -> <<"{", "\"", "a", "}">>
      \* {{"a":"c"}           one more opening than closing brace
      [] n = "badB"  -> <<"{", "{", "\"", "a", "\"", ":", "\"", "c", "\"", "}">>
      \* {a}}                 one more closing than opening brace
      [] n = "badC"  -> <<"{", "a", "}", "}">>
      \* {"x":"y"}            an object of the text around the blocks
      [] n = "objX"  -> <<"{", "\"", "x", "\"", ":", "\"", "y", "\"", "}">>
      \* {"a":               an object that the close tag cuts short
      [] n = "cutA"  -> <<"{", "\"", "a", "\"", ":">>
      \* {"a":"c             cut short inside a string
      [] n = "cutS"  -> <<"{", "\"", "a", "\"", ":", "\"", "c">>
      \* {"a":"\            cut short after a backslash
      [] n = "cutE"  -> <<"{", "\"", "a", "\"", ":", "\"", "\\">>
      \* {"a":{"d":"c"}      cut short after a nested object
      [] n = "cutN"  -> <<"{", "\"", "a", "\"", ":", "{", "\"", "d", "\"", ":",
                          "\"", "c", "\"", "}">>
      \* "x"                 a string between the objects of a block
      [] n = "strX"  -> <<"\"", "x", "\"">>
      \* {"action":"clearScene"}
      [] n = "cmdClear" ->
                          <<"{", "\"", "a", "c", "t", "i", "o", "n", "\"",
                          ":", "\"", "c", "l", "e", "a", "r", "S", "c",
                          "e", "n", "e", "\"", "}">>
      \* {"action":"addLight","light":{"id":"sun","type":"point"}}
      [] n = "cmdSun" ->
                          <<"{", "\"", "a", "c", "t", "i", "o", "n", "\"",
                          ":", "\"", "a", "d", "d", "L", "i", "g", "h",
                          "t", "\"", ",", "\"", "l", "i", "g", "h", "t",
                          "\"", ":", "{", "\"", "i", "d", "\"", ":", "\"",
                          "s", "u", "n", "\"", ",", "\"", "t", "y", "p",
                          "e", "\"", ":", "\"", "p", "o", "i", "n", "t",
                          "\"", "}", "}">>
      \* {"a":"{\"}"}          braces and an escaped quote inside a string
      [] n = "objB"  -> <<"{", "\"", "a", "\"", ":", "\"", "{", "\\", "\"",
                          "}", "\"", "}">>
      \* {"a":"\\"}            an escaped backslash ends the string value
      [] n = "objS"  -> <<"{", "\"", "a", "\"", ":", "\"", "\\", "\\", "\"",
                          "}">>
      [] OTHER       -> <<n>>

GoodObjects == {"objA", "objN", "objE"}
BadObjects  == {"badP", "badQ", "badB", "badC"}

RECURSIVE Flatten(_)
Flatten(pl) ==
    IF pl = <<>> THEN <<>> ELSE PieceText(Head(pl)) \o Flatten(Tail(pl))

\* the whole text of the stream
Text == Flatten(plan)

\* the length of the first i pieces of the stream
PieceEnd(i) == Len(Flatten(SubSeq(plan, 1, i)))

\* the tag pieces that have characters on both sides of stream offset b
TagsCutAt(b) ==
    {plan[i] : i \in {j \in DOMAIN plan : /\ plan[j] \in {"OPEN", "CLOSE"}
                                          /\ PieceEnd(j - 1) < b
                                          /\ b < PieceEnd(j)}}

\* bounds of the stream families
MaxElems  == 2
MaxPieces == 2

\* the interior of a well-formed block: one object, or an array of objects
RECURSIVE ArrayBody(_)
ArrayBody(objs) ==
    IF objs = <<>> THEN <<>>
    ELSE IF Len(objs) = 1 THEN <<Head(objs)>>
    ELSE <<Head(objs), ",">> \o ArrayBody(Tail(objs))

ObjectLists == UNION {[1..n -> GoodObjects] : n \in 0..MaxElems}

BlockPlans ==
    {<<"OPEN", g, "CLOSE">> : g \in GoodObjects}
    \cup {<<"OPEN", "[">> \o ArrayBody(objs) \o <<"]", "CLOSE">> :
              objs \in ObjectLists}

\* a stream that opens a block and goes on with any pieces
\* the same blocks, and blocks whose last object has a string value that
\* contains the text of the close tag
ShorterLists == UNION {[1..n -> GoodObjects] : n \in 0..(MaxElems - 1)}

BlockAnyPlans ==
    BlockPlans
    \cup {<<"OPEN", "objT", "CLOSE">>}
    \cup {<<"OPEN", "[">> \o ArrayBody(objs \o <<"objT">>) \o <<"]", "CLOSE">> :
              objs \in ShorterLists}

\* a block of one malformed fragment followed by one well-formed object
MalformedPlans ==
    {<<"OPEN", b, g, "CLOSE">> : b \in BadObjects, g \in GoodObjects}

\* two blocks with text before the first and between the two: nothing, a
\* well-formed object, a character that begins a tag, a brace and a quote
TwoBlockPlans ==
    {pre \o <<"OPEN">> \o first \o <<"CLOSE">> \o mid
         \o <<"OPEN">> \o second \o <<"CLOSE">> :
        pre \in {<<>>, <<"objX">>},
        first \in {<<"objA">>, <<"objA", "objE">>},
        mid \in {<<"objX">>, <<"<", "}", "\"">>},
        second \in {<<"objE">>, <<"objN">>}}

\* a block that closes while an object is open, a closing brace between
\* the blocks, and a second block
CutObjects == {"cutA", "cutS", "cutE", "cutN"}
CutShortPlans ==
    {<<"OPEN">> \o first \o <<"CLOSE", "}", "OPEN", second, "CLOSE">> :
        first \in {<<c>> : c \in CutObjects} \cup {<<"objA", "cutS">>},
        second \in {"objN", "objE"}}

\* a block of two objects with characters at depth 0 before, between and
\* after them: an array, white space, a string and letters, a lone quote,
\* a lone closing brace
Paddings ==
    {<<"[", ",", "]">>, <<" ", "strX", "x">>, <<"strX", "]", ",">>,
     <<",", "\"", "]">>, <<"[", "}", "]">>}
PaddedPlans ==
    {<<"OPEN", g[1], first, g[2], "objE", g[3], "CLOSE">> :
        g \in Paddings, first \in {"objA", "objN"}}

\* blocks of one or two objects whose string values hold braces, escaped
\* quotes and escaped backslashes
EscapeObjects == {"objB", "objS", "objE", "objN"}
EscapePlans ==
    {<<"OPEN", a, "CLOSE">> : a \in EscapeObjects}
    \cup {<<"OPEN", a, b, "CLOSE">> : a, b \in EscapeObjects}

StreamPieces ==
    {"OPEN", "CLOSE", "objA", "objN", "badP", "badQ", "badB", "}", "\"", ","}
StreamPlans  ==
    {<<"OPEN">> \o b : b \in UNION {[1..n -> StreamPieces] : n \in 0..MaxPieces}}

(***************************************************************************)
(* The streaming loop of POST (route.ts lines 166, 182-210)                *)
(***************************************************************************)
\* the parser object as a record
Parser ==
    [buffer |-> buffer, processedIndex |-> processedIndex,
     insideBlock |-> insideBlock, jsonBuffer |-> jsonBuffer,
     braceDepth |-> braceDepth, inString |-> inString,
     escapeNext |-> escapeNext, commands |-> <<>>, closedAt |-> <<>>,
     raised |-> FALSE]

\* parser.addChunk(part.text) with the next n characters of the stream
ParserAddChunk(n) ==
    /\ ~raised
    /\ n >= 1
    /\ Len(buffer) + n <= Len(Text)
    /\ \E p \in {addChunk(Parser,
                            SubSeq(Text, Len(buffer) + 1, Len(buffer) + n))} :
          /\ buffer' = p.buffer
          /\ processedIndex' = p.processedIndex
          /\ insideBlock' = p.insideBlock
          /\ jsonBuffer' = p.jsonBuffer
          /\ braceDepth' = p.braceDepth
          /\ inString' = p.inString
          /\ escapeNext' = p.escapeNext
          /\ raised' = p.raised
          /\ emitted' = IF p.raised THEN emitted ELSE emitted \o p.commands
          /\ emittedAt' = IF p.raised THEN emittedAt
                          ELSE emittedAt \o p.closedAt
    /\ splitTags' = splitTags \cup TagsCutAt(Len(buffer) + n)
    /\ UNCHANGED <<plan, storeVars, sceneVars>>

\* one call of addChunk, the response stream left aside
AddChunk(n) == ParserAddChunk(n) /\ UNCHANGED pipeVars

(***************************************************************************)
(* The scene store (part_002).  JavaScript values are tagged tuples:       *)
(*   <<"undefined","">>, <<"null","">>, <<"str",s>>, <<"num",literal>>,    *)
(*   <<"arr", seq>>, <<"obj", field -> value>>, <<"fn", name>> (a member   *)
(*   of Object.prototype).  state.objects and state.lights are the functions  *)
(*   key -> value of the two plain objects.                                *)
(***************************************************************************)
Undefined == <<"undefined", "">>
Null      == <<"null", "">>
Str(s)    == <<"str", s>>
Num(lit)  == <<"num", lit>>
Obj(f)    == <<"obj", f>>
Arr(a)    == <<"arr", a>>
Fn(name)  == <<"fn", name>>
Vec(x, y, z) == Obj([x |-> Num(x), y |-> Num(y), z |-> Num(z)])
EmptyMap  == [k \in {} |-> Undefined]

\* the property names every plain object inherits from Object.prototype
ObjectPrototypeKeys ==
    {"constructor", "hasOwnProperty", "isPrototypeOf", "propertyIsEnumerable",
     "toLocaleString", "toString", "valueOf", "__proto__",
     "__defineGetter__", "__defineSetter__", "__lookupGetter__",
     "__lookupSetter__"}

IsNullish(v) == v[1] \in {"undefined", "null"}
Truthy(v)    == ~IsNullish(v) /\ v # Str("") /\ v # Num("0")

\* v.k for a value v that is not null or undefined
GetProp(v, k) ==
    IF v[1] = "obj" /\ k \in DOMAIN v[2] THEN v[2][k]
    ELSE IF v[1] = "obj" /\ k \in ObjectPrototypeKeys THEN Fn(k)
    ELSE Undefined

\* map[key] on a plain object: own property, else the prototype's
Lookup(map, key) ==
    IF key \in DOMAIN map THEN map[key]
    ELSE IF key \in ObjectPrototypeKeys THEN Fn(key)
    ELSE Undefined

\* the property key a value is converted to in map[v] and { [v]: ... }
ToKey(v) ==
    CASE v[1] = "str"       -> v[2]
      [] v[1] = "num"       -> v[2]
      [] v[1] = "undefined" -> "undefined"
      [] v[1] = "null"      -> "null"
      [] v[1] = "obj"       -> "[object Object]"
      [] v[1] = "fn"        -> "function"

\* the own enumerable properties copied by { ...v } (none for undefined,
\* null, numbers and functions; strings are not used as spread sources)
Spread(v) == IF v[1] = "obj" THEN v[2] ELSE EmptyMap

\* { ...a, ...b } on property maps
Merge(a, b) ==
    [k \in DOMAIN a \cup DOMAIN b |-> IF k \in DOMAIN b THEN b[k] ELSE a[k]]

\* lines 13-19
DEFAULT_CAMERA ==
    Obj([position |-> Vec("0", "0", "5"), lookAt |-> Vec("0", "0", "0"),
         fov |-> Num("75"), near |-> Num("0.1"), far |-> Num("1000")])

\* lines 22-24
DEFAULT_CONFIG == Obj([background |-> Str("transparent")])

\* lines 27-32
DEFAULT_AMBIENT_LIGHT ==
    Obj([id |-> Str("default-ambient"), type |-> Str("ambient"),
         color |-> Str("#ffffff"), intensity |-> Num("0.5")])

\* lines 35-43
LIQUID_GRADIENT_SHADER ==
    Obj([shaderType |-> Str("liquidGradient"),
         colors |-> Arr(<<Str("#000005"), Str("#001028"), Str("#0055aa"),
                           Str("#00bbff")>>),
         speed |-> Num("0.4"), noiseScale |-> Num("2.2"),
         glowIntensity |-> Num("0.7"), glowColor |-> Str("#00aaff")])

\* lines 46-63
INITIAL_GRADIENT_PLANE ==
    Obj([id |-> Str("liquid-gradient"),
         name |-> Str("Liquid Gradient Background"),
         geometry |-> Obj([type |-> Str("plane"),
                           params |-> Obj([width |-> Num("8"),
                                           height |-> Num("8")])]),
         material |-> Obj([type |-> Str("shader"),
                           shader |-> LIQUID_GRADIENT_SHADER]),
         position |-> Vec("0", "0", "0"), rotation |-> Vec("0", "0", "0"),
         scale |-> Vec("1", "1", "1")])

\* lines 66-75
INITIAL_STATE ==
    [objects |-> ("liquid-gradient" :> INITIAL_GRADIENT_PLANE),
     lights  |-> ("default-ambient" :> DEFAULT_AMBIENT_LIGHT),
     camera  |-> DEFAULT_CAMERA,
     config  |-> DEFAULT_CONFIG,
     threw   |-> FALSE]

\* a TypeError leaves the store as it was
Throw(st) == [st EXCEPT !.threw = TRUE]

\* variant: the record is merged over the previous record of the same id
addObject_Merge(st, object) ==
    IF IsNullish(object) THEN Throw(st)
    ELSE [st EXCEPT !.objects =
              Merge(st.objects,
                    ToKey(GetProp(object, "id")) :>
                        Obj(Merge(Spread(Lookup(st.objects,
                                                ToKey(GetProp(object, "id")))),
                                  Spread(object))))]

\* lines 138-141
addObject(st, object) ==
    IF IsNullish(object) THEN Throw(st)
    ELSE [st EXCEPT !.objects =
              Merge(st.objects, ToKey(GetProp(object, "id")) :> object)]

\* { ...a, ...b } with the nested records merged as well
DeepMerge(a, b) ==
    [k \in DOMAIN a \cup DOMAIN b |->
        IF k \notin DOMAIN b THEN a[k]
        ELSE IF k \in DOMAIN a /\ a[k][1] = "obj" /\ b[k][1] = "obj"
             THEN Obj(Merge(a[k][2], b[k][2]))
             ELSE b[k]]

\* variant: the patch is merged into the nested records
updateObject_Deep(st, id, updates) ==
    LET existing == Lookup(st.objects, ToKey(id))
    IN IF ~Truthy(existing) THEN st
       ELSE [st EXCEPT !.objects =
                Merge(st.objects,
                      ToKey(id) :> Obj(DeepMerge(Spread(existing),
                                                 Spread(updates))))]

\* lines 144-155
updateObject(st, id, updates) ==
    LET existing == Lookup(st.objects, ToKey(id))
    IN IF ~Truthy(existing) THEN st
       ELSE [st EXCEPT !.objects =
                Merge(st.objects,
                      ToKey(id) :> Obj(Merge(Spread(existing),
                                             Spread(updates))))]

\* lines 158-162
removeObject(st, id) ==
    [st EXCEPT !.objects =
        [k \in DOMAIN st.objects \ {ToKey(id)} |-> st.objects[k]]]

\* lines 165-168
addLight(st, light) ==
    IF IsNullish(light) THEN Throw(st)
    ELSE [st EXCEPT !.lights =
              Merge(st.lights, ToKey(GetProp(light, "id")) :> light)]

\* lines 171-182
updateLight(st, id, updates) ==
    LET existing == Lookup(st.lights, ToKey(id))
    IN IF ~Truthy(existing) THEN st
       ELSE [st EXCEPT !.lights =
                Merge(st.lights,
                      ToKey(id) :> Obj(Merge(Spread(existing),
                                             Spread(updates))))]

\* lines 185-189
removeLight(st, id) ==
    [st EXCEPT !.lights =
        [k \in DOMAIN st.lights \ {ToKey(id)} |-> st.lights[k]]]

\* variant: the patch replaces the record
setCamera_Replace(st, cfg) ==
    [st EXCEPT !.camera = Obj(Spread(cfg))]

\* lines 192-195
setCamera(st, cfg) ==
    [st EXCEPT !.camera = Obj(Merge(Spread(st.camera), Spread(cfg)))]

\* variant: the patch of the config also puts the camera back
setConfig_ResetsCamera(st, cfg) ==
    [st EXCEPT !.config = Obj(Merge(Spread(st.config), Spread(cfg))),
               !.camera = DEFAULT_CAMERA]

\* lines 198-201
setConfig(st, cfg) ==
    [st EXCEPT !.config = Obj(Merge(Spread(st.config), Spread(cfg)))]

\* variant: the lights are left as they are
clearScene_KeepsLights(st) ==
    [st EXCEPT !.objects = EmptyMap]

\* lines 204-208
clearScene(st) ==
    [st EXCEPT !.objects = EmptyMap,
               !.lights = ("default-ambient" :> DEFAULT_AMBIENT_LIGHT)]

\* variant: only the objects and the lights are restored
resetScene_KeepsCamera(st) ==
    [st EXCEPT !.objects = INITIAL_STATE.objects,
               !.lights = INITIAL_STATE.lights]

\* line 211: set(INITIAL_STATE) replaces the four slices
resetScene(st) ==
    [st EXCEPT !.objects = INITIAL_STATE.objects,
               !.lights = INITIAL_STATE.lights,
               !.camera = INITIAL_STATE.camera,
               !.config = INITIAL_STATE.config]

\* lines 103-132: the case labels of the switch
ActionTags ==
    {"addObject", "updateObject", "removeObject", "addLight", "updateLight",
     "removeLight", "setCamera", "setConfig", "clearScene", "resetScene"}

\* variant: a default case that resets the scene
applyCommand_DefaultResets(st, command) ==
    LET action == GetProp(command, "action")
    IN CASE action = Str("addObject") ->
              addObject(st, GetProp(command, "object"))
         [] action = Str("updateObject") ->
              updateObject(st, GetProp(command, "id"),
                           GetProp(command, "updates"))
         [] action = Str("removeObject") ->
              removeObject(st, GetProp(command, "id"))
         [] action = Str("addLight") ->
              addLight(st, GetProp(command, "light"))
         [] action = Str("updateLight") ->
              updateLight(st, GetProp(command, "id"),
                          GetProp(command, "updates"))
         [] action = Str("removeLight") ->
              removeLight(st, GetProp(command, "id"))
         [] action = Str("setCamera") ->
              setCamera(st, GetProp(command, "config"))
         [] action = Str("setConfig") ->
              setConfig(st, GetProp(command, "config"))
         [] action = Str("clearScene") -> clearScene(st)
         [] action = Str("resetScene") -> resetScene(st)
         [] OTHER -> resetScene(st)

\* lines 100-135
applyCommand(st, command) ==
    LET action == GetProp(command, "action")
    IN CASE action = Str("addObject") ->
              addObject(st, GetProp(command, "object"))
         [] action = Str("updateObject") ->
              updateObject(st, GetProp(command, "id"),
                           GetProp(command, "updates"))
         [] action = Str("removeObject") ->
              removeObject(st, GetProp(command, "id"))
         [] action = Str("addLight") ->
              addLight(st, GetProp(command, "light"))
         [] action = Str("updateLight") ->
              updateLight(st, GetProp(command, "id"),
                          GetProp(command, "updates"))
         [] action = Str("removeLight") ->
              removeLight(st, GetProp(command, "id"))
         [] action = Str("setCamera") ->
              setCamera(st, GetProp(command, "config"))
         [] action = Str("setConfig") ->
              setConfig(st, GetProp(command, "config"))
         [] action = Str("clearScene") -> clearScene(st)
         [] action = Str("resetScene") -> resetScene(st)
         [] OTHER -> st

(***************************************************************************)
(* The commands handed to the dispatcher (onData, part_000 lines 142-148)  *)
(***************************************************************************)
Cmd(f) == Obj(f)

SphereA ==
    Obj([id |-> Str("a"), geometry |-> Obj([type |-> Str("sphere")]),
         material |-> Obj([type |-> Str("standard")])])
BoxA ==
    Obj([id |-> Str("a"), geometry |-> Obj([type |-> Str("box")]),
         material |-> Obj([type |-> Str("basic"), color |-> Str("#ff0000")]),
         visible |-> Str("false")])
SunLight ==
    Obj([id |-> Str("sun"), type |-> Str("directional"),
         intensity |-> Num("1")])
PointAmbient ==
    Obj([id |-> Str("default-ambient"), type |-> Str("point")])

ObjectIds == {"a", "liquid-gradient", "constructor"}
LightIds  == {"sun", "default-ambient", "toString"}

ObjectPatches ==
    {Obj([position |-> Vec("2", "0", "0")]),
     Obj([material |-> Obj([color |-> Str("#ffffff")])]),
     Obj([id |-> Str("b")])}
LightPatches ==
    {Obj([intensity |-> Num("2")]), Obj([type |-> Str("spot")])}
CameraPatches ==
    {Obj([fov |-> Num("50")]), Obj([zoom |-> Num("2")]),
     Obj([position |-> Vec("1", "2", "3")])}
ConfigPatches ==
    {Obj([background |-> Str("#000000")]),
     Obj([fog |-> Obj([color |-> Str("#cccccc"), near |-> Num("1"),
                       far |-> Num("9")])])}

Commands ==
    {Cmd([action |-> Str("addObject"), object |-> o]) : o \in {SphereA, BoxA}}
    \cup {Cmd([action |-> Str("updateObject"), id |-> Str(i), updates |-> u]) :
              i \in ObjectIds, u \in ObjectPatches}
    \cup {Cmd([action |-> Str("removeObject"), id |-> Str(i)]) : i \in ObjectIds}
    \cup {Cmd([action |-> Str("addLight"), light |-> l]) :
              l \in {SunLight, PointAmbient}}
    \cup {Cmd([action |-> Str("updateLight"), id |-> Str(i), updates |-> u]) :
              i \in LightIds, u \in LightPatches}
    \cup {Cmd([action |-> Str("removeLight"), id |-> Str(i)]) : i \in LightIds}
    \cup {Cmd([action |-> Str("setCamera"), config |-> c]) : c \in CameraPatches}
    \cup {Cmd([action |-> Str("setConfig"), config |-> c]) : c \in ConfigPatches}
    \cup {Cmd([action |-> Str("clearScene")]),
          Cmd([action |-> Str("resetScene")]),
          \* an unknown tag, a missing tag, missing payloads
          Cmd([action |-> Str("explode")]),
          Cmd([id |-> Str("a")]),
          Cmd([action |-> Str("addObject")]),
          Cmd([action |-> Str("setCamera")]),
          Cmd([action |-> Str("updateObject"), id |-> Str("a")])}

\* bound on the number of commands of one run
MaxSteps == 3

\* the document: the four slices of the store
Doc == [objects |-> objects, lights |-> lights, camera |-> camera,
        config |-> config]

DocOf(st) == [objects |-> st.objects, lights |-> st.lights,
              camera |-> st.camera, config |-> st.config]

NoCmd == Cmd([action |-> Str("")])

\* the enumeration order of the own keys of a plain object (none of the
\* ids is an integer index): the keys that are kept stay in place, a new
\* key goes last
KeysAfter(keys, dom) ==
    LET kept == SelectSeq(keys, LAMBDA k : k \in dom)
        new  == dom \ {keys[i] : i \in DOMAIN keys}
    IN IF new = {} THEN kept ELSE Append(kept, CHOOSE k \in new : TRUE)

\* the commands whose updater returns a new objects mapping: addObject
\* (line 139), updateObject of a truthy entry (line 149), removeObject (line
\* 161), clearScene (line 206)
NewObjects(doc, command) ==
    LET action == GetProp(command, "action")
    IN \/ action = Str("addObject") /\ ~IsNullish(GetProp(command, "object"))
       \/ action = Str("updateObject")
             /\ Truthy(Lookup(doc.objects, ToKey(GetProp(command, "id"))))
       \/ action \in {Str("removeObject"), Str("clearScene")}

\* likewise for the lights mapping (lines 166, 176, 188, 207)
NewLights(doc, command) ==
    LET action == GetProp(command, "action")
    IN \/ action = Str("addLight") /\ ~IsNullish(GetProp(command, "light"))
       \/ action = Str("updateLight")
             /\ Truthy(Lookup(doc.lights, ToKey(GetProp(command, "id"))))
       \/ action \in {Str("removeLight"), Str("clearScene")}

\* the identity of a slice after a command: resetScene installs the
\* reference held by INITIAL_STATE (0), a new mapping is a reference the
\* component has not seen (only equality of references is observed, so two
\* names for new references are enough)
RefAfter(ver, seen, command, isNew) ==
    IF GetProp(command, "action") = Str("resetScene") THEN 0
    ELSE IF isNew THEN (IF seen = 1 THEN 2 ELSE 1)
    ELSE ver

\* useSceneStore's applyCommand(command) and the new references of the
\* slices it replaces
StoreApply(command) ==
    /\ steps < MaxSteps
    /\ \E st \in {applyCommand([objects |-> objects, lights |-> lights,
                                 camera |-> camera, config |-> config,
                                 threw |-> FALSE], command)} :
          /\ objects' = st.objects
          /\ lights' = st.lights
          /\ camera' = st.camera
          /\ config' = st.config
          /\ threw' = st.threw
          /\ objectKeys' = KeysAfter(objectKeys, DOMAIN st.objects)
          /\ lightKeys' = KeysAfter(lightKeys, DOMAIN st.lights)
    /\ objectsVer' = RefAfter(objectsVer, objectsSeen, command,
                              NewObjects(Doc, command))
    /\ lightsVer' = RefAfter(lightsVer, lightsSeen, command,
                             NewLights(Doc, command))
    /\ cameraVer' = RefAfter(cameraVer, cameraSeen, command,
                             GetProp(command, "action") = Str("setCamera"))
    /\ prevDoc' = Doc
    /\ lastCmd' = command
    /\ steps' = steps + 1
    /\ UNCHANGED <<streamVars, parserVars, sceneVars>>

\* one command applied to the store, the response stream left aside
ApplyCommand(command) == StoreApply(command) /\ UNCHANGED pipeVars

(***************************************************************************)
(* The ThreeBackground component (part_001).  A live map is a function     *)
(* from the Map keys, which are JavaScript values, to records.  Numbers    *)
(* of transforms are integers in hundredths.                               *)
(***************************************************************************)
\* Math.sin and Math.cos, in hundredths: a table of twelve points of the
\* unit circle, one per step of the argument, that satisfy
\* cos^2 + sin^2 = 1 exactly
Sin(t) ==
    <<0, 60, 80, 100, 80, 60, 0, -60, -80, -100, -80, -60>>[(t % 12) + 1]
Cos(t) == Sin(t + 3)
Abs(x) == IF x < 0 THEN -x ELSE x

\* the product of two numbers in hundredths
Mul(a, b) == (a * b) \div 100

\* Math.sqrt of a number in ten-thousandths, in hundredths, rounded down:
\* the r with r^2 <= n < (r + 1)^2, found between lo and hi by halving
RECURSIVE SqrtBetween(_, _, _)
SqrtBetween(n, lo, hi) ==
    IF hi - lo <= 1 THEN lo
    ELSE LET mid == (lo + hi) \div 2
         IN IF mid <= n \div mid THEN SqrtBetween(n, mid, hi)
            ELSE SqrtBetween(n, lo, mid)

Sqrt(n) == SqrtBetween(n, 0, n + 1)

\* Math.atan2(dz, dx), in hundredths of a step of the table: the step
\* whose point is nearest to the direction (dx, dz)
DirectionOff(k, r, dz, dx) ==
    Abs(Mul(Cos(k), r) - dx) + Abs(Mul(Sin(k), r) - dz)

Atan2(dz, dx) ==
    IF dx = 0 /\ dz = 0 THEN 0
    ELSE 100 * (CHOOSE k \in 0..11 :
                   \E r \in {Sqrt(dx * dx + dz * dz)} :
                      \A j \in 0..11 :
                         DirectionOff(k, r, dz, dx) <= DirectionOff(j, r, dz, dx))

\* the numeric literals of the commands, in hundredths
ToNumber(v) ==
    LET lit == ("0" :> 0 @@ "0.2" :> 20 @@ "0.3" :> 30 @@ "0.5" :> 50
                @@ "1" :> 100 @@ "2" :> 200 @@ "3" :> 300 @@ "4" :> 400
                @@ "5" :> 500)
    IN IF v[1] = "num" /\ v[2] \in DOMAIN lit THEN lit[v[2]] ELSE 0

\* variant: a tag without a case builds nothing
createGeometry_NoDefault(type) ==
    IF type[1] = "str" THEN type[2] ELSE "none"

\* lines 1617-1712: the geometry built for a type tag
createGeometry(type) ==
    IF type \in {Str(k) : k \in {"box", "roundedBox", "sphere", "cylinder",
                                 "cone", "torus", "torusKnot", "plane",
                                 "circle", "ring", "dodecahedron",
                                 "icosahedron", "octahedron", "tetrahedron"}}
    THEN type[2] ELSE "box"

\* lines 1975-2040: the material built for a material record
createMaterial(material) ==
    LET type == GetProp(material, "type")
    IN IF type \in {Str(k) : k \in {"basic", "standard", "phong", "lambert",
                                    "toon", "normal", "shader"}}
       THEN type[2] ELSE "basic"

\* lines 2046-2134: the light built for a light record (position Undefined:
\* the position the engine gives a new light of that kind)
createLight(lightConfig) ==
    LET type == GetProp(lightConfig, "type")
    IN [kind |-> IF type \in {Str(k) : k \in {"ambient", "directional",
                                             "point", "spot", "hemisphere"}}
                 THEN type[2] ELSE "ambient",
        color |-> IF Truthy(GetProp(lightConfig, "color"))
                  THEN GetProp(lightConfig, "color") ELSE Str("#ffffff"),
        intensity |-> IF IsNullish(GetProp(lightConfig, "intensity"))
                      THEN Num("1") ELSE GetProp(lightConfig, "intensity"),
        position |-> IF Truthy(GetProp(lightConfig, "position"))
                        /\ type \in {Str("directional"), Str("point"),
                                     Str("spot")}
                     THEN GetProp(lightConfig, "position")
                     ELSE Undefined]

\* vector.set(v.x, v.y, v.z), or the default when the field is falsy
VectorOf(v, default) ==
    IF Truthy(v)
    THEN <<ToNumber(GetProp(v, "x")), ToNumber(GetProp(v, "y")),
           ToNumber(GetProp(v, "z"))>>
    ELSE default

\* map.set(key, val)
With(f, key, val) == [k \in DOMAIN f \cup {key} |-> IF k = key THEN val ELSE f[k]]

\* variant: the removed meshes leave the map with their geometry and
\* material undisposed
RemoveMeshes_NoDispose(r, objs) ==
    LET gone == {id \in DOMAIN r.meshes : ~Truthy(Lookup(objs, ToKey(id)))}
    IN [r EXCEPT !.meshes = [id \in DOMAIN r.meshes \ gone |-> r.meshes[id]],
                 !.clocks = [id \in DOMAIN r.clocks \ gone |-> r.clocks[id]],
                 !.removed = gone,
                 !.order = r.order \o [i \in 1..Cardinality(gone) |-> "remove"]]

\* variant: the clocks of the removed meshes are kept
RemoveMeshes_KeepsClocks(r, objs) ==
    LET gone == {id \in DOMAIN r.meshes : ~Truthy(Lookup(objs, ToKey(id)))}
    IN [r EXCEPT !.meshes = [id \in DOMAIN r.meshes \ gone |-> r.meshes[id]],
                 !.removed = gone,
                 !.disposeCalls = r.disposeCalls + 2 * Cardinality(gone),
                 !.geometriesDisposed =
                     r.geometriesDisposed + Cardinality(gone),
                 !.materialsDisposed =
                     r.materialsDisposed + Cardinality(gone),
                 !.order = r.order \o [i \in 1..Cardinality(gone) |-> "remove"]]

\* lines 2454-2466: a mesh whose id has no truthy objects[id] is removed
\* from the scene, its geometry and its material are disposed, and its
\* entries in the mesh map and in the clock map are deleted
RemoveMeshes(r, objs) ==
    LET gone == {id \in DOMAIN r.meshes : ~Truthy(Lookup(objs, ToKey(id)))}
    IN [r EXCEPT !.meshes = [id \in DOMAIN r.meshes \ gone |-> r.meshes[id]],
                 !.clocks = [id \in DOMAIN r.clocks \ gone |-> r.clocks[id]],
                 !.removed = gone,
                 !.disposeCalls = r.disposeCalls + 2 * Cardinality(gone),
                 !.geometriesDisposed =
                     r.geometriesDisposed + Cardinality(gone),
                 !.materialsDisposed =
                     r.materialsDisposed + Cardinality(gone),
                 !.order = r.order \o [i \in 1..Cardinality(gone) |-> "remove"]]

\* variant: the reset of the baseline restarts the clock
ApplyTransforms_RestartsClock(r, id, obj, mesh) ==
    LET m == [mesh EXCEPT
                 !.position = VectorOf(GetProp(obj, "position"), <<0, 0, 0>>),
                 !.rotation = VectorOf(GetProp(obj, "rotation"), <<0, 0, 0>>),
                 !.scale = VectorOf(GetProp(obj, "scale"), <<100, 100, 100>>),
                 !.visible = IF IsNullish(GetProp(obj, "visible")) THEN TRUE
                             ELSE Truthy(GetProp(obj, "visible"))]
    IN [r EXCEPT !.meshes = With(r.meshes, id, m),
                 !.clocks =
                     IF Truthy(GetProp(obj, "animation")) /\ id \in DOMAIN r.clocks
                     THEN With(r.clocks, id,
                               [time |-> 0, initialPosition |-> m.position,
                                initialScale |-> m.scale])
                     ELSE r.clocks]

\* lines 2493-2523: the transforms and flags of the record are applied to
\* the mesh; with an animation in the record the baseline of an existing
\* clock is reset to the new transform
ApplyTransforms(r, id, obj, mesh) ==
    LET m == [mesh EXCEPT
                 !.position = VectorOf(GetProp(obj, "position"), <<0, 0, 0>>),
                 !.rotation = VectorOf(GetProp(obj, "rotation"), <<0, 0, 0>>),
                 !.scale = VectorOf(GetProp(obj, "scale"), <<100, 100, 100>>),
                 !.visible = IF IsNullish(GetProp(obj, "visible")) THEN TRUE
                             ELSE Truthy(GetProp(obj, "visible"))]
    IN [r EXCEPT !.meshes = With(r.meshes, id, m),
                 !.clocks =
                     IF Truthy(GetProp(obj, "animation")) /\ id \in DOMAIN r.clocks
                     THEN With(r.clocks, id,
                               [r.clocks[id] EXCEPT
                                   !.initialPosition = m.position,
                                   !.initialScale = m.scale])
                     ELSE r.clocks]

\* variant: a live mesh keeps its geometry and its material, only the
\* transforms of the record are applied
SyncObject_KeepsResources(r, obj) ==
    LET id == GetProp(obj, "id")
        geometry == GetProp(obj, "geometry")
        material == GetProp(obj, "material")
        base == [r EXCEPT !.order = Append(r.order, "upsert")]
    IN IF id \in DOMAIN r.meshes
       THEN ApplyTransforms(base, id, obj, r.meshes[id])
       ELSE IF IsNullish(geometry) \/ IsNullish(material)
       THEN [base EXCEPT !.threw = TRUE]
       ELSE ApplyTransforms(
                [base EXCEPT
                    !.geometriesCreated = r.geometriesCreated + 1,
                    !.materialsCreated = r.materialsCreated + 1,
                    !.created = r.created \cup {id}],
                id, obj,
                [geometry |-> createGeometry(GetProp(geometry, "type")),
                 material |-> createMaterial(material),
                 geometryDisposed |-> FALSE,
                 materialDisposed |-> FALSE,
                 position |-> <<0, 0, 0>>, rotation |-> <<0, 0, 0>>,
                 scale |-> <<100, 100, 100>>, visible |-> TRUE])

\* lines 2469-2524, one record of Object.values(objects): a mesh is created
\* under obj.id, or the geometry and the material of the live mesh are
\* disposed and rebuilt.  obj.geometry.type of a missing geometry and
\* config.color of a missing material raise a TypeError.
SyncObject(r, obj) ==
    LET id == GetProp(obj, "id")
        geometry == GetProp(obj, "geometry")
        material == GetProp(obj, "material")
        base == [r EXCEPT !.order = Append(r.order, "upsert")]
    IN IF id \notin DOMAIN r.meshes
       THEN IF IsNullish(geometry) THEN [base EXCEPT !.threw = TRUE]
            ELSE IF IsNullish(material)
            THEN [base EXCEPT !.threw = TRUE,
                              !.geometriesCreated = r.geometriesCreated + 1]
            ELSE ApplyTransforms(
                     [base EXCEPT
                         !.geometriesCreated = r.geometriesCreated + 1,
                         !.materialsCreated = r.materialsCreated + 1,
                         !.created = r.created \cup {id}],
                     id, obj,
                     [geometry |-> createGeometry(GetProp(geometry, "type")),
                      material |-> createMaterial(material),
                      geometryDisposed |-> FALSE,
                      materialDisposed |-> FALSE,
                      position |-> <<0, 0, 0>>, rotation |-> <<0, 0, 0>>,
                      scale |-> <<100, 100, 100>>, visible |-> TRUE])
       ELSE IF IsNullish(geometry)
            THEN [base EXCEPT
                     !.threw = TRUE,
                     !.disposeCalls = r.disposeCalls + 1,
                     !.geometriesDisposed = r.geometriesDisposed + 1,
                     !.meshes = With(r.meshes, id,
                                     [r.meshes[id] EXCEPT
                                         !.geometryDisposed = TRUE])]
            ELSE IF IsNullish(material)
            THEN [base EXCEPT
                     !.threw = TRUE,
                     !.disposeCalls = r.disposeCalls + 2,
                     !.geometriesDisposed = r.geometriesDisposed + 1,
                     !.materialsDisposed = r.materialsDisposed + 1,
                     !.geometriesCreated = r.geometriesCreated + 1,
                     !.meshes = With(r.meshes, id,
                                     [r.meshes[id] EXCEPT
                                         !.geometry =
                                             createGeometry(GetProp(geometry, "type")),
                                         !.geometryDisposed = FALSE,
                                         !.materialDisposed = TRUE])]
            ELSE ApplyTransforms(
                     [base EXCEPT
                         !.disposeCalls = r.disposeCalls + 2,
                         !.geometriesDisposed = r.geometriesDisposed + 1,
                         !.materialsDisposed = r.materialsDisposed + 1,
                         !.geometriesCreated = r.geometriesCreated + 1,
                         !.materialsCreated = r.materialsCreated + 1,
                         !.rebuilt = r.rebuilt \cup {id}],
                     id, obj,
                     [r.meshes[id] EXCEPT
                         !.geometry = createGeometry(GetProp(geometry, "type")),
                         !.material = createMaterial(material),
                         !.geometryDisposed = FALSE,
                         !.materialDisposed = FALSE])

\* Object.values(objects).forEach: the records in the enumeration order of
\* the keys, up to the first one that raises
RECURSIVE SyncObjects(_, _, _, _)
SyncObjects(r, objs, keys, i) ==
    IF i > Len(keys) \/ r.threw THEN r
    ELSE SyncObjects(SyncObject(r, objs[keys[i]]), objs, keys, i + 1)

\* the record a run of the objects effect works on
ObjectsRun(meshes, clocks) ==
    [meshes |-> meshes, clocks |-> clocks, threw |-> FALSE,
     removed |-> {}, created |-> {}, rebuilt |-> {}, order |-> <<>>,
     disposeCalls |-> 0, geometriesCreated |-> 0, materialsCreated |-> 0,
     geometriesDisposed |-> 0, materialsDisposed |-> 0]

\* variant: the records are built before the absent meshes are removed
syncObjects_UpsertFirst(meshes, clocks, objs, keys) ==
    RemoveMeshes(SyncObjects(ObjectsRun(meshes, clocks), objs, keys, 1), objs)

\* lines 2446-2525: the objects effect
syncObjects(meshes, clocks, objs, keys) ==
    SyncObjects(RemoveMeshes(ObjectsRun(meshes, clocks), objs), objs, keys, 1)

\* lines 2533-2539: a light whose id has no truthy lights[id] is removed
\* from the scene, disposed and deleted from the light map
RemoveLights(r, lts) ==
    LET gone == {id \in DOMAIN r.lights : ~Truthy(Lookup(lts, ToKey(id)))}
    IN [r EXCEPT !.lights = [id \in DOMAIN r.lights \ gone |-> r.lights[id]],
                 !.removed = gone,
                 !.disposeCalls = r.disposeCalls + Cardinality(gone),
                 !.order = r.order \o [i \in 1..Cardinality(gone) |-> "remove"]]

\* lines 2542-2567, one record of Object.values(lights): a light is created
\* under lightConfig.id, or the color, the intensity and the position of
\* the live light are set
SyncLight(r, lightConfig) ==
    LET id == GetProp(lightConfig, "id")
        base == [r EXCEPT !.order = Append(r.order, "upsert")]
    IN IF id \notin DOMAIN r.lights
       THEN [base EXCEPT !.lights = With(r.lights, id, createLight(lightConfig)),
                         !.created = r.created \cup {id}]
       ELSE [base EXCEPT
                !.lights = With(r.lights, id,
                    [r.lights[id] EXCEPT
                        !.color = IF Truthy(GetProp(lightConfig, "color"))
                                  THEN GetProp(lightConfig, "color") ELSE @,
                        !.intensity =
                            IF GetProp(lightConfig, "intensity") # Undefined
                            THEN GetProp(lightConfig, "intensity") ELSE @,
                        !.position =
                            IF Truthy(GetProp(lightConfig, "position"))
                            THEN GetProp(lightConfig, "position") ELSE @])]

RECURSIVE SyncLights(_, _, _, _)
SyncLights(r, lts, keys, i) ==
    IF i > Len(keys) THEN r
    ELSE SyncLights(SyncLight(r, lts[keys[i]]), lts, keys, i + 1)

\* the record a run of the lights effect works on
LightsRun(live) ==
    [lights |-> live, removed |-> {}, created |-> {}, order |-> <<>>,
     disposeCalls |-> 0]

\* lines 2528-2568: the lights effect
syncLights(live, lts, keys) ==
    SyncLights(RemoveLights(LightsRun(live), lts), lts, keys, 1)

\* the commands of the scene runs: records with and without geometry, an
\* id that is a member name of Object.prototype, a patch that holds an id
RingC ==
    Obj([id |-> Str("constructor"), geometry |-> Obj([type |-> Str("ring")]),
         material |-> Obj([type |-> Str("toon")])])
BareX == Obj([id |-> Str("x")])
\* kind tags that no case of the factories names
BlobK ==
    Obj([id |-> Str("k"), geometry |-> Obj([type |-> Str("blob")]),
         material |-> Obj([type |-> Str("glass")])])
LaserL ==
    Obj([id |-> Str("l"), type |-> Str("laser"),
         position |-> Vec("1", "2", "3")])

SceneCommands ==
    {Cmd([action |-> Str("addObject"), object |-> o]) :
         o \in {SphereA, BoxA, RingC, BareX, BlobK}}
    \cup {Cmd([action |-> Str("updateObject"), id |-> Str("a"), updates |-> u]) :
              u \in {Obj([position |-> Vec("2", "0", "0")]),
                     Obj([id |-> Str("b")])}}
    \cup {Cmd([action |-> Str("removeObject"), id |-> Str(i)]) :
              i \in {"a", "constructor", "liquid-gradient"}}
    \cup {Cmd([action |-> Str("addLight"), light |-> l]) :
              l \in {SunLight, PointAmbient, LaserL}}
    \cup {Cmd([action |-> Str("updateLight"), id |-> Str("sun"),
               updates |-> Obj([type |-> Str("spot")])]),
          Cmd([action |-> Str("removeLight"), id |-> Str("sun")]),
          Cmd([action |-> Str("removeLight"), id |-> Str("default-ambient")]),
          Cmd([action |-> Str("clearScene")]),
          Cmd([action |-> Str("resetScene")])}

\* camera.lookAt ?? { x: 0, y: 0, z: 0 }
LookAtOf(cam) ==
    IF IsNullish(GetProp(cam, "lookAt")) THEN <<0, 0, 0>>
    ELSE VectorOf(GetProp(cam, "lookAt"), <<0, 0, 0>>)

\* lines 2402-2425: the camera effect stores the record for the frames,
\* derives the radius, the height and the angle of the orbit from the
\* configured position and puts the live camera there (every camera
\* record of the runs has its position)
syncCamera(cam) ==
    LET position == VectorOf(GetProp(cam, "position"), <<0, 0, 0>>)
        dx == position[1] - LookAtOf(cam)[1]
        dz == position[3] - LookAtOf(cam)[3]
    IN [config |-> cam,
        radius |-> Sqrt(dx * dx + dz * dz),
        height |-> position[2],
        angle |-> Atan2(dz, dx),
        position |-> position]

\* the camera refs as a record
CameraRefs ==
    [config |-> cameraConfigRef, radius |-> cameraOrbitRadiusRef,
     height |-> cameraOrbitHeightRef, angle |-> cameraOrbitAngleRef,
     position |-> threeCamera]

\* the operations of one effect, marked with its slice
Tagged(slice, order) == [i \in 1..Len(order) |-> <<slice, order[i]>>]

\* what the latest commit did, for the properties; geometriesLive and
\* materialsLive count the resources created and not disposed by all the
\* commits so far
NoSync ==
    [ranObjects |-> FALSE, ranLights |-> FALSE, failed |-> FALSE,
     objectsBefore |-> {}, meshesBefore |-> {}, lightsBefore |-> {},
     clocksBefore |-> EmptyMap,
     objectsAfter |-> {}, lightsAfter |-> {},
     removedMeshes |-> {}, createdMeshes |-> {}, rebuiltMeshes |-> {},
     objectDisposeCalls |-> 0, log |-> <<>>,
     geometriesDisposed |-> 0, materialsDisposed |-> 0,
     geometriesLive |-> 0, materialsLive |-> 0,
     removedLights |-> {}, createdLights |-> {}, lightDisposeCalls |-> 0]

\* a commit of the component after the store has changed: the camera
\* effect runs when the camera reference differs from the one of its
\* latest run (deps [camera], line 2425), then the objects effect likewise
\* (deps [objects], line 2525), then the lights effect (deps [lights],
\* line 2568); all run on mount.  An effect that raises ends the
\* component.
Commit ==
    /\ ~crashed
    /\ \/ objectsVer # objectsSeen
       \/ lightsVer # lightsSeen
       \/ cameraVer # cameraSeen
    /\ \E c \in {IF cameraVer # cameraSeen THEN syncCamera(camera)
                 ELSE CameraRefs} :
          /\ cameraConfigRef' = c.config
          /\ cameraOrbitRadiusRef' = c.radius
          /\ cameraOrbitHeightRef' = c.height
          /\ cameraOrbitAngleRef' = c.angle
          /\ threeCamera' = c.position
    /\ cameraSeen' = cameraVer
    /\ \E o \in {IF objectsVer # objectsSeen
                 THEN syncObjects(meshesRef, animationStatesRef, objects,
                                  objectKeys)
                 ELSE ObjectsRun(meshesRef, animationStatesRef)} :
       \E l \in {IF lightsVer # lightsSeen
                 THEN syncLights(lightsRef, lights, lightKeys)
                 ELSE LightsRun(lightsRef)} :
          /\ meshesRef' = o.meshes
          /\ animationStatesRef' = o.clocks
          /\ lightsRef' = l.lights
          /\ crashed' = o.threw
          /\ lastSync' =
                [ranObjects |-> objectsVer # objectsSeen,
                 ranLights |-> lightsVer # lightsSeen,
                 failed |-> o.threw,
                 objectsBefore |-> DOMAIN objectConfigsRef,
                 meshesBefore |-> DOMAIN meshesRef,
                 lightsBefore |-> DOMAIN lightsRef,
                 clocksBefore |-> animationStatesRef,
                 objectsAfter |-> DOMAIN objects,
                 lightsAfter |-> DOMAIN lights,
                 removedMeshes |-> o.removed,
                 createdMeshes |-> o.created,
                 rebuiltMeshes |-> o.rebuilt,
                 objectDisposeCalls |-> o.disposeCalls,
                 geometriesDisposed |-> o.geometriesDisposed,
                 materialsDisposed |-> o.materialsDisposed,
                 geometriesLive |-> lastSync.geometriesLive
                     + o.geometriesCreated - o.geometriesDisposed,
                 materialsLive |-> lastSync.materialsLive
                     + o.materialsCreated - o.materialsDisposed,
                 log |-> Tagged("objects", o.order)
                             \o Tagged("lights", l.order),
                 removedLights |-> l.removed,
                 createdLights |-> l.created,
                 lightDisposeCalls |-> l.disposeCalls]
    /\ objectConfigsRef' = IF objectsVer # objectsSeen THEN objects
                           ELSE objectConfigsRef
    /\ objectsSeen' = objectsVer
    /\ lightsSeen' = lightsVer
    /\ deltas' = IF objectsVer # objectsSeen THEN <<>> ELSE deltas
    /\ UNCHANGED <<streamVars, parserVars, storeVars, pipeVars>>

(***************************************************************************)
(* The animation runner (part_001 lines 2146-2203 and 2330-2366).  Frame   *)
(* deltas and clocks are whole ticks; the numbers of the runs make every   *)
(* product of hundredths exact.                                            *)
(***************************************************************************)
\* anim.field ?? default, in hundredths
NumberOr(anim, field, default) ==
    IF IsNullish(GetProp(anim, field)) THEN default
    ELSE ToNumber(GetProp(anim, field))

\* lines 2156-2165
animRotate(mesh, anim, state, deltaTime) ==
    LET speed == NumberOr(anim, "speed", 100) \div 100
        step  == 50 * speed * deltaTime
        axis  == GetProp(anim, "axis")
    IN [mesh EXCEPT !.rotation =
           <<@[1] + (IF axis \in {Str("x"), Str("all")} THEN step ELSE 0),
             @[2] + (IF axis \in {Str("y"), Str("all")} \/ ~Truthy(axis)
                     THEN step ELSE 0),
             @[3] + (IF axis \in {Str("z"), Str("all")} THEN step ELSE 0)>>]

\* lines 2167-2172
animBounce(mesh, anim, state) ==
    [mesh EXCEPT !.position[2] =
        state.initialPosition[2]
            + Mul(Abs(Sin(state.time * 2)), NumberOr(anim, "amplitude", 50))]

\* variant: the offset is added to the position of the previous frame
animFloat_Compounding(mesh, anim, state) ==
    [mesh EXCEPT !.position[2] =
        @ + Mul(Sin(state.time), NumberOr(anim, "amplitude", 30))]

\* lines 2174-2178
animFloat(mesh, anim, state) ==
    [mesh EXCEPT !.position[2] =
        state.initialPosition[2]
            + Mul(Sin(state.time), NumberOr(anim, "amplitude", 30))]

\* lines 2180-2189
animPulse(mesh, anim, state) ==
    LET scale == 100 + Mul(Sin(state.time * 2),
                           NumberOr(anim, "amplitude", 20))
    IN [mesh EXCEPT !.scale = <<Mul(state.initialScale[1], scale),
                                Mul(state.initialScale[2], scale),
                                Mul(state.initialScale[3], scale)>>]

\* lines 2191-2197
animOrbit(mesh, anim, state) ==
    LET radius == NumberOr(anim, "radius", 200)
        center == IF IsNullish(GetProp(anim, "center"))
                  THEN Vec("0", "0", "0") ELSE GetProp(anim, "center")
    IN [mesh EXCEPT
           !.position[1] = ToNumber(GetProp(center, "x"))
                               + Mul(Cos(state.time), radius),
           !.position[3] = ToNumber(GetProp(center, "z"))
                               + Mul(Sin(state.time), radius)]

\* lines 2146-2203: the clock advances by deltaTime * speed, then the
\* procedure of the type sets the transform
applyAnimation(mesh, anim, state, deltaTime) ==
    LET speed == NumberOr(anim, "speed", 100) \div 100
        st    == [state EXCEPT !.time = @ + deltaTime * speed]
        type  == GetProp(anim, "type")
    IN [state |-> st,
        mesh |-> CASE type = Str("rotate") -> animRotate(mesh, anim, st, deltaTime)
                   [] type = Str("bounce") -> animBounce(mesh, anim, st)
                   [] type = Str("float")  -> animFloat(mesh, anim, st)
                   [] type = Str("pulse")  -> animPulse(mesh, anim, st)
                   [] type = Str("orbit")  -> animOrbit(mesh, anim, st)
                   [] OTHER -> mesh]

\* lines 2356-2362: the clock made for a mesh at its first animated frame
NewClock(mesh) ==
    [time |-> 0, initialPosition |-> mesh.position,
     initialScale |-> mesh.scale]

\* line 2332: the record the frame reads for a mesh id
ConfigOf(id) == Lookup(objectConfigsRef, ToKey(id))

\* variant: every animation record counts, the type none included
Animated_AnyType(id) == Truthy(GetProp(ConfigOf(id), "animation"))

\* line 2354: the mesh has an animation that is not "none"
Animated(id) ==
    /\ Truthy(GetProp(ConfigOf(id), "animation"))
    /\ GetProp(GetProp(ConfigOf(id), "animation"), "type") # Str("none")

\* lines 2355-2364 for one mesh
FrameOf(id, deltaTime) ==
    applyAnimation(meshesRef[id], GetProp(ConfigOf(id), "animation"),
                   IF id \in DOMAIN animationStatesRef
                   THEN animationStatesRef[id] ELSE NewClock(meshesRef[id]),
                   deltaTime)

\* variant: the radius of the orbit grows with the angle
orbitCamera_Spiral(cam, deltaTime) ==
    IF Truthy(GetProp(cam.config, "autoRotate"))
    THEN LET speed == Mul(NumberOr(cam.config, "autoRotateSpeed", 100), 30)
             angle == cam.angle + deltaTime * speed
             radius == cam.radius + angle
         IN [cam EXCEPT
                !.angle = angle,
                !.position =
                    <<LookAtOf(cam.config)[1] + Mul(Cos(angle \div 100), radius),
                      cam.height,
                      LookAtOf(cam.config)[3]
                          + Mul(Sin(angle \div 100), radius)>>]
    ELSE cam

\* lines 2368-2383: with autoRotate the angle advances by deltaTime times
\* 0.3 times the speed of the record and the camera is put on the orbit;
\* the table of Math.cos and Math.sin is read at the whole step of the
\* angle
orbitCamera(cam, deltaTime) ==
    IF Truthy(GetProp(cam.config, "autoRotate"))
    THEN LET speed == Mul(NumberOr(cam.config, "autoRotateSpeed", 100), 30)
             angle == cam.angle + deltaTime * speed
         IN [cam EXCEPT
                !.angle = angle,
                !.position =
                    <<LookAtOf(cam.config)[1]
                          + Mul(Cos(angle \div 100), cam.radius),
                      cam.height,
                      LookAtOf(cam.config)[3]
                          + Mul(Sin(angle \div 100), cam.radius)>>]
    ELSE cam

\* bound on the sum of the frame deltas between two objects effects
MaxTime == 4

RECURSIVE SumOf(_)
SumOf(q) == IF q = <<>> THEN 0 ELSE Head(q) + SumOf(Tail(q))

\* the time the frames have advanced since the latest objects effect
Elapsed == SumOf(deltas)

\* lines 2310-2366: one animation frame over all live meshes
Frame(deltaTime) ==
    /\ ~crashed
    /\ objectsSeen # -1
    /\ Elapsed + deltaTime <= MaxTime
    /\ meshesRef' = [id \in DOMAIN meshesRef |->
                        IF Animated(id) THEN FrameOf(id, deltaTime).mesh
                        ELSE meshesRef[id]]
    /\ animationStatesRef' =
          [id \in DOMAIN animationStatesRef
                   \cup {i \in DOMAIN meshesRef : Animated(i)} |->
              IF id \in DOMAIN meshesRef /\ Animated(id)
              THEN FrameOf(id, deltaTime).state
              ELSE animationStatesRef[id]]
    /\ deltas' = Append(deltas, deltaTime)
    /\ \E c \in {orbitCamera(CameraRefs, deltaTime)} :
          /\ cameraOrbitAngleRef' = c.angle
          /\ threeCamera' = c.position
    /\ UNCHANGED <<streamVars, parserVars, storeVars, pipeVars, lightsRef,
                   objectConfigsRef, objectsSeen, lightsSeen, lastSync,
                   crashed, cameraSeen, cameraConfigRef,
                   cameraOrbitRadiusRef, cameraOrbitHeightRef>>

\* animated objects of the animation runs: each procedure with its default
\* parameters and with parameters of its own, over two baselines
Animations ==
    {Obj([type |-> Str(t)]) :
         t \in {"float", "bounce", "pulse", "orbit", "rotate", "none"}}
    \cup {Obj([type |-> Str("float"), speed |-> Num("2"),
               amplitude |-> Num("0.5")]),
          Obj([type |-> Str("bounce"), amplitude |-> Num("0.2")]),
          Obj([type |-> Str("pulse"), speed |-> Num("2"),
               amplitude |-> Num("0.5")]),
          Obj([type |-> Str("orbit"), radius |-> Num("1"),
               center |-> Vec("1", "0", "2")]),
          Obj([type |-> Str("rotate"), axis |-> Str("all"),
               speed |-> Num("2")])}

AnimatedObjects ==
    {Obj([id |-> Str("m"), geometry |-> Obj([type |-> Str("torus")]),
          material |-> Obj([type |-> Str("phong")]), animation |-> a]) :
         a \in Animations}
    \cup {Obj([id |-> Str("m"), geometry |-> Obj([type |-> Str("torus")]),
               material |-> Obj([type |-> Str("phong")]),
               position |-> Vec("2", "1", "3"), scale |-> Vec("2", "2", "1"),
               animation |-> a]) : a \in Animations}

AnimationCommands ==
    {Cmd([action |-> Str("addObject"), object |-> o]) : o \in AnimatedObjects}

\* the commands of the camera runs: auto-rotation with and without a
\* speed, a position and a look-at point whose distance is a whole number,
\* and an animated object
CameraCommands ==
    {Cmd([action |-> Str("setCamera"), config |-> c]) :
         c \in {Obj([autoRotate |-> Num("1")]),
                Obj([autoRotate |-> Num("1"), autoRotateSpeed |-> Num("5")]),
                Obj([position |-> Vec("3", "1", "4"),
                     lookAt |-> Vec("3", "0", "1")])}}
    \cup {Cmd([action |-> Str("addObject"),
                object |-> Obj([id |-> Str("m"),
                               geometry |-> Obj([type |-> Str("torus")]),
                               material |-> Obj([type |-> Str("phong")]),
                               animation |-> Obj([type |-> Str("float")])])])}

\* the commands of the motion runs: an animated object m, an object s
\* that has no animation or the animation none, and patches of their
\* transforms
FloatM ==
    Obj([id |-> Str("m"), geometry |-> Obj([type |-> Str("torus")]),
         material |-> Obj([type |-> Str("phong")]),
         position |-> Vec("2", "1", "3"),
         animation |-> Obj([type |-> Str("float")])])
StillS ==
    Obj([id |-> Str("s"), geometry |-> Obj([type |-> Str("box")]),
         material |-> Obj([type |-> Str("basic")]),
         rotation |-> Vec("0", "1", "0")])
NoneS ==
    Obj([id |-> Str("s"), geometry |-> Obj([type |-> Str("box")]),
         material |-> Obj([type |-> Str("basic")]),
         animation |-> Obj([type |-> Str("none")])])

MotionCommands ==
    {Cmd([action |-> Str("addObject"), object |-> o]) :
         o \in {FloatM, StillS, NoneS}}
    \cup {Cmd([action |-> Str("updateObject"), id |-> Str(i),
               updates |-> Obj([position |-> Vec("1", "2", "3"),
                                scale |-> Vec("2", "2", "1")])]) :
              i \in {"m", "s"}}
    \cup {Cmd([action |-> Str("removeObject"), id |-> Str("m")])}

\* the commands of the rotation runs: an object r that rotates, an object s
\* that stands still, and a patch of the position of s
RotateR ==
    Obj([id |-> Str("r"), geometry |-> Obj([type |-> Str("torus")]),
         material |-> Obj([type |-> Str("phong")]),
         animation |-> Obj([type |-> Str("rotate")])])
RotationCommands ==
    {Cmd([action |-> Str("addObject"), object |-> RotateR]),
     Cmd([action |-> Str("addObject"), object |-> StillS]),
     Cmd([action |-> Str("updateObject"), id |-> Str("s"),
          updates |-> Obj([position |-> Vec("1", "2", "3")])])}

(***************************************************************************)
(* Specifications                                                          *)
(***************************************************************************)
\* the state after construction: a new parser (route.ts lines 19-26, 166),
\* the store created from INITIAL_STATE (part_002 line 97), and the stream
\* the model is about to produce
StartOf(plans) ==
    /\ plan \in plans
    /\ emitted = <<>> /\ emittedAt = <<>> /\ raised = FALSE
    /\ splitTags = {}
    /\ buffer = NewParser.buffer
    /\ processedIndex = NewParser.processedIndex
    /\ insideBlock = NewParser.insideBlock
    /\ jsonBuffer = NewParser.jsonBuffer
    /\ braceDepth = NewParser.braceDepth
    /\ inString = NewParser.inString
    /\ escapeNext = NewParser.escapeNext
    /\ objects = INITIAL_STATE.objects
    /\ lights = INITIAL_STATE.lights
    /\ camera = INITIAL_STATE.camera
    /\ config = INITIAL_STATE.config
    /\ prevDoc = DocOf(INITIAL_STATE)
    /\ lastCmd = NoCmd
    /\ threw = FALSE
    /\ steps = 0
    /\ objectKeys = <<"liquid-gradient">>
    /\ lightKeys = <<"default-ambient">>
    /\ objectsVer = 0
    /\ lightsVer = 0
    /\ cameraVer = 0
    /\ meshesRef = EmptyMap
    /\ lightsRef = EmptyMap
    /\ animationStatesRef = EmptyMap
    /\ objectConfigsRef = EmptyMap
    /\ objectsSeen = -1
    /\ lightsSeen = -1
    /\ lastSync = NoSync
    /\ deltas = <<>>
    /\ crashed = FALSE
    /\ cameraSeen = -1
    /\ cameraConfigRef = INITIAL_STATE.camera
    /\ cameraOrbitAngleRef = 0
    /\ cameraOrbitRadiusRef = 0
    /\ cameraOrbitHeightRef = 0
    /\ threeCamera = <<0, 0, 0>>
    /\ written = <<[type |-> "start"]>>
    /\ textStarted = FALSE
    /\ clientAt = 0
    /\ applied = <<>>

InitBlock  == StartOf(BlockPlans)
InitBlockAny == StartOf(BlockAnyPlans)
InitMalformed == StartOf(MalformedPlans)
InitStream == StartOf(StreamPlans)
InitTwoBlocks == StartOf(TwoBlockPlans)
InitCutShort == StartOf(CutShortPlans)
InitPadded == StartOf(PaddedPlans)
InitEscapes == StartOf(EscapePlans)
InitStore  == StartOf({<<>>})
InitScene  == StartOf({<<>>})
InitAnimation == StartOf({<<>>})
InitCamera == StartOf({<<>>})
InitMotion == StartOf({<<>>})
InitRotation == StartOf({<<>>})

\* the stream is cut into fragments at any character boundaries
NextParser == \E n \in 1..(Len(Text) - Len(buffer)) : AddChunk(n)

\* the first fragment is the first piece of the stream, the rest is cut at
\* any character boundaries
NextStream ==
    \E n \in 1..(Len(Text) - Len(buffer)) :
        /\ buffer = <<>> => n = Len(PieceText(plan[1]))
        /\ AddChunk(n)
NextStore  == \E command \in Commands : ApplyCommand(command)

\* commands are applied and the component commits in any interleaving
NextScene ==
    \/ \E command \in SceneCommands : ApplyCommand(command)
    \/ Commit

\* well-formed single blocks, every chunking
SpecBlock == InitBlock /\ [][NextParser]_vars

\* the same with the close tag also inside a string, every chunking
SpecBlockAny == InitBlockAny /\ [][NextParser]_vars

\* a malformed fragment before a well-formed object, every chunking
SpecMalformed == InitMalformed /\ [][NextParser]_vars

\* two blocks with text around them, every chunking
SpecCutShort == InitCutShort /\ [][NextParser]_vars

SpecPadded == InitPadded /\ [][NextParser]_vars
\* every chunking of a block whose strings hold braces and escapes
SpecEscapes == InitEscapes /\ [][NextParser]_vars

SpecTwoBlocks == InitTwoBlocks /\ [][NextParser]_vars

\* the store with the component that renders it
SpecScene == InitScene /\ [][NextScene]_vars

\* one animated object is added, the component commits, frames of any
\* deltas follow
NextAnimation ==
    \/ \E command \in AnimationCommands : steps = 0 /\ ApplyCommand(command)
    \/ Commit
    \/ \E deltaTime \in 1..MaxTime : Frame(deltaTime)

NextMotion ==
    \/ \E c \in MotionCommands : ApplyCommand(c)
    \/ Commit
    \/ \E deltaTime \in 1..MaxTime : Frame(deltaTime)

SpecMotion == InitMotion /\ [][NextMotion]_vars

NextRotation ==
    \/ \E c \in RotationCommands : ApplyCommand(c)
    \/ Commit
    \/ \E deltaTime \in 1..MaxTime : Frame(deltaTime)

SpecRotation == InitRotation /\ [][NextRotation]_vars

NextCamera ==
    \/ \E c \in CameraCommands : ApplyCommand(c)
    \/ Commit
    \/ \E deltaTime \in 1..MaxTime : Frame(deltaTime)

SpecCamera == InitCamera /\ [][NextCamera]_vars

SpecAnimation == InitAnimation /\ [][NextAnimation]_vars

\* streams of arbitrary pieces after an open tag
SpecStream == InitStream /\ [][NextStream]_vars

\* the dispatcher under every command sequence
SpecStore == InitStore /\ [][NextStore]_vars

Spec == SpecStore

(***************************************************************************)
(* Properties of the incremental extractor                                 *)
(***************************************************************************)
Range(q) == {q[i] : i \in DOMAIN q}
Count(q, v) == Cardinality({i \in DOMAIN q : q[i] = v})
SameBag(q, r) ==
    /\ Len(q) = Len(r)
    /\ \A v \in Range(q) \cup Range(r) : Count(q, v) = Count(r, v)

\* the whole stream has been fed
Done == Len(buffer) = Len(Text)

\* the indexes of the stream's well-formed object pieces delivered in full
\* within the first n characters
DeliveredObjects(n) ==
    {i \in DOMAIN plan : plan[i] \in GoodObjects /\ PieceEnd(i) <= n}

RECURSIVE ValuesOf(_, _)
ValuesOf(idxs, i) ==
    IF i > Len(plan) THEN <<>>
    ELSE (IF i \in idxs THEN <<JsonParse(PieceText(plan[i])).val>> ELSE <<>>)
         \o ValuesOf(idxs, i + 1)

\* their values, in stream order
DeliveredCommands(n) == ValuesOf(DeliveredObjects(n), 1)

\* the text between the open tag that starts the stream and the close tag
\* that ends it
Interior == SubSeq(Text, Len(OpenTag) + 1, Len(Text) - Len(CloseTag))

\* the stream is one complete well-formed block: open tag, one JSON object
\* or a JSON array of objects, close tag
WellFormedBlock ==
    /\ plan[1] = "OPEN" /\ plan[Len(plan)] = "CLOSE"
    /\ LET r == JsonParse(Interior)
       IN /\ r.ok
          /\ \/ r.val[1] = "obj"
             \/ /\ r.val[1] = "arr"
                /\ \A i \in DOMAIN r.val[2] : r.val[2][i][1] = "obj"

CloseTagInInterior == IndexOf(Interior, CloseTag, 0) # -1

\* C1 as stated: once a complete well-formed block (one object or an array
\* of objects) has been fed, in one chunk or in any chunks, the commands
\* returned by all addChunk calls are the same multiset as the static parse
\* of the text.
C1_StreamingEqualsStatic ==
    (Done /\ WellFormedBlock) =>
        SameBag(emitted, extractSceneCommands(Text))

\* C1 amended: the same for the blocks whose JSON text does not contain the
\* text of the close tag.
C1_StreamingEqualsStaticNoTagInside ==
    (Done /\ WellFormedBlock /\ ~CloseTagInInterior) =>
        SameBag(emitted, extractSceneCommands(Text))

C1_Witness ==
    /\ Done /\ WellFormedBlock /\ ~CloseTagInInterior
    /\ plan[2] = "[" /\ Len(emitted) = 2 /\ emitted[1] # emitted[2]
    /\ SameBag(emitted, extractSceneCommands(Text))

\* C2: when a fragment boundary has fallen inside the open tag or the close
\* tag, the block is still detected: at the end of the stream every object
\* of the block has been emitted exactly once and the parser has left the
\* block with nothing unscanned.
C2_SplitTagDetected ==
    (Done /\ splitTags # {}) =>
        /\ emitted = DeliveredCommands(Len(Text))
        /\ ~insideBlock
        /\ processedIndex = Len(buffer)

C2_Witness ==
    /\ Done /\ splitTags = {"OPEN", "CLOSE"}
    /\ Len(emitted) = 2 /\ emitted = DeliveredCommands(Len(Text))
    /\ ~insideBlock

\* C4: after every addChunk call the emitted commands are exactly the objects
\* whose closing brace has been delivered, so each command is returned by
\* the call that delivers its closing brace, close tag received or not.
C4_EmittedWithClosingBrace ==
    /\ emitted = DeliveredCommands(Len(buffer))
    /\ \A i \in DOMAIN emittedAt :
          emittedAt[i] <= Len(buffer) /\ buffer[emittedAt[i]] = "}"

C4_Witness ==
    /\ insideBlock /\ ~Done /\ emitted # <<>>
    /\ emittedAt[Len(emittedAt)] = Len(buffer)
    /\ emitted = DeliveredCommands(Len(buffer))

\* the value of a piece that is a well-formed object
ValueOf(piece) == JsonParse(PieceText(piece)).val

\* C3: a block of one malformed fragment followed by one well-formed object
\* yields exactly one command, the well-formed one, whatever the
\* malformation (unparsable content, unbalanced quote, unbalanced braces).
C3_MalformedIsolated ==
    Done => emitted = <<ValueOf(plan[3])>>

\* C5: the commands are emitted in the order of the closing braces of their
\* objects in the text fed so far: the closing positions of the emitted
\* commands increase strictly, and each command is the value of a piece of
\* the text that ends at its position.
C5_EmittedInClosingOrder ==
    /\ Len(emittedAt) = Len(emitted)
    /\ \A i, j \in DOMAIN emitted : i < j => emittedAt[i] < emittedAt[j]
    /\ \A i \in DOMAIN emitted :
          \E b \in 1..emittedAt[i] :
              /\ buffer[b] = "{"
              /\ JsonParse(SubSeq(buffer, b, emittedAt[i])).ok
              /\ JsonParse(SubSeq(buffer, b, emittedAt[i])).val = emitted[i]

C5_Witness ==
    /\ Len(emitted) = 2 /\ emitted[1] # emitted[2]
    /\ emittedAt[1] < emittedAt[2]
    /\ emitted[1] = ValueOf(plan[2]) /\ emitted[2] = ValueOf(plan[3])

\* C6: no addChunk call raises, whatever the fragments.
C6_AddChunkNeverRaises == ~raised

\* a fragment that does not parse has been closed and skipped
C6_Witness ==
    /\ plan = <<"OPEN", "badP", "\"">> /\ Done /\ ~raised
    /\ processedIndex = Len(buffer) /\ emitted = <<>>

\* C7: the brace depth is never negative, and a well-formed object that
\* follows a closing brace seen at depth 0 is still extracted.
C7_DepthNeverNegative ==
    /\ braceDepth >= 0
    /\ (Done /\ plan = <<"OPEN", "}", "objA">>) => emitted = <<ValueOf("objA")>>

(***************************************************************************)
(* Properties of the dispatcher                                            *)
(***************************************************************************)
IsAction(a) == steps > 0 /\ GetProp(lastCmd, "action") = Str(a)
CmdId       == ToKey(GetProp(lastCmd, "id"))

\* C8: updateObject and removeObject of an id that is not in the objects
\* mapping leave the mapping as it was, and so do updateLight and
\* removeLight for the lights mapping.
C8_UnknownIdIsNoOp ==
    /\ ((IsAction("updateObject") \/ IsAction("removeObject"))
            /\ CmdId \notin DOMAIN prevDoc.objects)
          => objects = prevDoc.objects
    /\ ((IsAction("updateLight") \/ IsAction("removeLight"))
            /\ CmdId \notin DOMAIN prevDoc.lights)
          => lights = prevDoc.lights

\* C9: after resetScene the document is the fixed initial snapshot: the
\* gradient plane as only object, the default ambient light as only light,
\* the default camera and the default config.
C9_ResetRestoresInitial ==
    IsAction("resetScene") =>
        /\ DOMAIN objects = {"liquid-gradient"}
        /\ objects["liquid-gradient"] = INITIAL_GRADIENT_PLANE
        /\ DOMAIN lights = {"default-ambient"}
        /\ lights["default-ambient"] = DEFAULT_AMBIENT_LIGHT
        /\ camera = DEFAULT_CAMERA
        /\ config = DEFAULT_CONFIG

C9_Witness ==
    /\ IsAction("resetScene")
    /\ prevDoc.camera # DEFAULT_CAMERA
    /\ "liquid-gradient" \notin DOMAIN prevDoc.objects
    /\ camera = DEFAULT_CAMERA
    /\ DOMAIN objects = {"liquid-gradient"}

\* the record made of the patch fields over the old fields
PatchedOver(old, patch, new) ==
    /\ DOMAIN new = DOMAIN old \cup DOMAIN patch
    /\ \A k \in DOMAIN patch : new[k] = patch[k]
    /\ \A k \in DOMAIN old \ DOMAIN patch : new[k] = old[k]

\* C10: setCamera and setConfig give every top-level field of the patch the
\* patch value and leave every other top-level field of the record as it was.
C10_ShallowMerge ==
    /\ IsAction("setCamera") =>
          PatchedOver(prevDoc.camera[2], Spread(GetProp(lastCmd, "config")),
                      camera[2])
    /\ IsAction("setConfig") =>
          PatchedOver(prevDoc.config[2], Spread(GetProp(lastCmd, "config")),
                      config[2])

C10_Witness ==
    /\ IsAction("setCamera")
    /\ GetProp(lastCmd, "config") = Obj([zoom |-> Num("2")])
    /\ GetProp(prevDoc.camera, "zoom") = Undefined
    /\ GetProp(camera, "fov") = Num("50")
    /\ GetProp(camera, "zoom") = Num("2")
    /\ GetProp(camera, "position") = Vec("0", "0", "5")

\* C11: clearScene yields an empty objects mapping and a lights mapping of
\* exactly the default ambient light (fixed id, color and intensity), even
\* if the document had removed or modified that light; camera and config
\* are those of the document before.
C11_ClearScene ==
    IsAction("clearScene") =>
        /\ DOMAIN objects = {}
        /\ DOMAIN lights = {"default-ambient"}
        /\ GetProp(lights["default-ambient"], "id") = Str("default-ambient")
        /\ GetProp(lights["default-ambient"], "type") = Str("ambient")
        /\ GetProp(lights["default-ambient"], "color") = Str("#ffffff")
        /\ GetProp(lights["default-ambient"], "intensity") = Num("0.5")
        /\ camera = prevDoc.camera
        /\ config = prevDoc.config

\* clearScene of a document whose default light was replaced, that has an
\* object and a camera that is not the default one
C11_Witness ==
    /\ IsAction("clearScene")
    /\ Lookup(prevDoc.lights, "default-ambient") = PointAmbient
    /\ prevDoc.camera # DEFAULT_CAMERA
    /\ DOMAIN prevDoc.objects # {}
    /\ DOMAIN objects = {}
    /\ lights = ("default-ambient" :> DEFAULT_AMBIENT_LIGHT)
    /\ camera = prevDoc.camera

\* the mapping new is the mapping old with the entry key |-> record
PutOver(old, key, record, new) ==
    /\ DOMAIN new = DOMAIN old \cup {key}
    /\ new[key] = record
    /\ \A k \in DOMAIN old \ {key} : new[k] = old[k]

\* C12: after addObject(o) the entry under o.id is exactly o, with no field
\* of a previous record of that id, and every other entry of the mapping is
\* unchanged; likewise addLight(l) for the lights mapping.
C12_AddReplacesWholesale ==
    /\ (IsAction("addObject") /\ ~IsNullish(GetProp(lastCmd, "object"))) =>
          PutOver(prevDoc.objects,
                  ToKey(GetProp(GetProp(lastCmd, "object"), "id")),
                  GetProp(lastCmd, "object"), objects)
    /\ (IsAction("addLight") /\ ~IsNullish(GetProp(lastCmd, "light"))) =>
          PutOver(prevDoc.lights,
                  ToKey(GetProp(GetProp(lastCmd, "light"), "id")),
                  GetProp(lastCmd, "light"), lights)

\* the sphere replaces the box of the same id, whose visible field is gone
C12_Witness ==
    /\ IsAction("addObject")
    /\ GetProp(lastCmd, "object") = SphereA
    /\ DOMAIN prevDoc.objects = {"a", "liquid-gradient"}
    /\ prevDoc.objects["a"] = BoxA
    /\ objects["a"] = SphereA
    /\ "visible" \notin DOMAIN objects["a"][2]
    /\ objects["liquid-gradient"] = INITIAL_GRADIENT_PLANE

\* C13: updateObject and updateLight on a present id give every top-level
\* field of the patch the patch value as a whole (nested records are not
\* merged), keep every other top-level field of the record, and leave the
\* other entries of the mapping as they were.
C13_UpdateShallowMerge ==
    /\ (IsAction("updateObject") /\ CmdId \in DOMAIN prevDoc.objects) =>
          /\ DOMAIN objects = DOMAIN prevDoc.objects
          /\ PatchedOver(Spread(prevDoc.objects[CmdId]),
                         Spread(GetProp(lastCmd, "updates")),
                         Spread(objects[CmdId]))
          /\ \A k \in DOMAIN objects \ {CmdId} : objects[k] = prevDoc.objects[k]
    /\ (IsAction("updateLight") /\ CmdId \in DOMAIN prevDoc.lights) =>
          /\ DOMAIN lights = DOMAIN prevDoc.lights
          /\ PatchedOver(Spread(prevDoc.lights[CmdId]),
                         Spread(GetProp(lastCmd, "updates")),
                         Spread(lights[CmdId]))
          /\ \A k \in DOMAIN lights \ {CmdId} : lights[k] = prevDoc.lights[k]

\* a material patch of one field over the box: the material is the patch,
\* the geometry is kept
C13_Witness ==
    /\ IsAction("updateObject") /\ CmdId = "a"
    /\ Lookup(prevDoc.objects, "a") = BoxA
    /\ GetProp(lastCmd, "updates") =
           Obj([material |-> Obj([color |-> Str("#ffffff")])])
    /\ GetProp(objects["a"], "material") = Obj([color |-> Str("#ffffff")])
    /\ GetProp(objects["a"], "geometry") = GetProp(BoxA, "geometry")
    /\ GetProp(objects["a"], "visible") = GetProp(BoxA, "visible")

\* C14: applyCommand raises for no parsed JSON object, also when the
\* payload field of a recognised action is missing or of the wrong shape.
C14_DispatcherNeverRaises == ~threw

\* C15: a command whose action is none of the 10 tags, or is absent, leaves
\* objects, lights, camera and config as they were.
C15_UnknownActionIgnored ==
    (steps > 0 /\ GetProp(lastCmd, "action") \notin {Str(a) : a \in ActionTags})
        => Doc = prevDoc

C15_Witness ==
    /\ steps > 1
    /\ GetProp(lastCmd, "action") \in {Str("explode"), Undefined}
    /\ Doc = prevDoc
    /\ objects # INITIAL_STATE.objects
    /\ camera # DEFAULT_CAMERA

(***************************************************************************)
(* Properties of the reconciliation                                        *)
(***************************************************************************)
\* the ids the latest document change has removed from the objects mapping
RemovedObjects == lastSync.objectsBefore \ lastSync.objectsAfter

\* C16: when a document change removes N objects, the reconciliation issues
\* exactly N dispose calls and leaves no entry for a removed id in the live
\* mesh map.
C16_DisposalComplete ==
    (lastSync.ranObjects /\ ~lastSync.failed) =>
        /\ lastSync.objectDisposeCalls = Cardinality(RemovedObjects)
        /\ \A k \in RemovedObjects : Str(k) \notin DOMAIN meshesRef

\* C18: after every objects reconciliation the ids of the live mesh map are
\* the ids of the objects mapping, and after every lights reconciliation the
\* ids of the live light map are the ids of the lights mapping.
C18_LiveIdsAreDocumentIds ==
    /\ (lastSync.ranObjects /\ ~lastSync.failed) =>
          DOMAIN meshesRef = {Str(k) : k \in lastSync.objectsAfter}
    /\ lastSync.ranLights =>
          DOMAIN lightsRef = {Str(k) : k \in lastSync.lightsAfter}

(***************************************************************************)
(* Properties of the animation runner                                      *)
(***************************************************************************)
\* the mesh the objects effect builds for the record of an id
BuiltMesh(id) ==
    SyncObject(ObjectsRun(EmptyMap, EmptyMap), ConfigOf(id)).meshes[id]

\* the mesh and the clock after one frame of the whole elapsed time
OneStep(id) ==
    applyAnimation(BuiltMesh(id), GetProp(ConfigOf(id), "animation"),
                   NewClock(BuiltMesh(id)), Elapsed)

ClockOnly(id) ==
    GetProp(GetProp(ConfigOf(id), "animation"), "type")
        \in {Str("float"), Str("bounce"), Str("pulse"), Str("orbit")}

\* C17: for float, bounce, pulse and orbit with fixed parameters and
\* baseline, the mesh after any sequence of frames is the mesh after one
\* frame whose delta is the sum of their deltas, and so is the clock.
C17_OneStepEqualsManySteps ==
    \A id \in DOMAIN meshesRef :
        (Animated(id) /\ ClockOnly(id) /\ deltas # <<>>) =>
            /\ meshesRef[id] = OneStep(id).mesh
            /\ animationStatesRef[id] = OneStep(id).state

\* three frames have moved a floating mesh off its baseline
C17_Witness ==
    /\ Str("m") \in DOMAIN meshesRef
    /\ Len(deltas) = 3
    /\ GetProp(ConfigOf(Str("m")), "animation") = Obj([type |-> Str("float")])
    /\ meshesRef[Str("m")].position # BuiltMesh(Str("m")).position
    /\ meshesRef[Str("m")] = OneStep(Str("m")).mesh

(***************************************************************************)
(* Properties of the extractor over several blocks                         *)
(***************************************************************************)
\* piece i lies inside a block: the nearest tag before it is an open tag
InsideBlock(i) ==
    \E o \in 1..(i - 1) :
        /\ plan[o] = "OPEN"
        /\ \A j \in (o + 1)..(i - 1) : plan[j] \notin {"OPEN", "CLOSE"}

\* the object pieces of the stream, inside a block and outside of any
ObjectPieces == GoodObjects \cup {"objX", "objB", "objS"}
BlockObjects == {i \in DOMAIN plan : plan[i] \in ObjectPieces /\ InsideBlock(i)}
OutsideObjects ==
    {i \in DOMAIN plan : plan[i] \in ObjectPieces /\ ~InsideBlock(i)}

\* C19: a well-formed object before the first open tag or between a close
\* tag and the next open tag never produces a command, for every chunking:
\* every emitted command is closed by the closing brace of an object inside
\* a block, and no closing brace of an outside object has emitted one.
C19_OutsideTextDiscarded ==
    /\ \A i \in DOMAIN emitted :
          \E k \in BlockObjects :
              PieceEnd(k) = emittedAt[i] /\ emitted[i] = ValueOf(plan[k])
    /\ \A k \in OutsideObjects :
          \A i \in DOMAIN emittedAt : emittedAt[i] # PieceEnd(k)

\* the whole stream is fed, it has an object before the first block and
\* one between the blocks, and the commands are those of the blocks
C19_Witness ==
    /\ Done
    /\ plan[1] = "objX"
    /\ \E k \in OutsideObjects : k > 1
    /\ Len(emitted) = Cardinality(BlockObjects)

\* C20: when the stream holds several blocks separated by text, every
\* well-formed top-level object of every block is emitted exactly once, in
\* stream order.
C20_AllBlocksHonored ==
    Done => emitted = ValuesOf(BlockObjects, 1)

\* two blocks of different objects with text between them
C20_Witness ==
    /\ Done
    /\ Cardinality({i \in DOMAIN plan : plan[i] = "OPEN"}) = 2
    /\ "<" \in Range(plan)
    /\ emitted = <<ValueOf("objA"), ValueOf("objE"), ValueOf("objN")>>

(***************************************************************************)
(* Properties of the resource factories and of the effects                 *)
(***************************************************************************)
\* the kind tags the factories have a case for
GeometryTags ==
    {"box", "roundedBox", "sphere", "cylinder", "cone", "torus", "torusKnot",
     "plane", "circle", "ring", "dodecahedron", "icosahedron", "octahedron",
     "tetrahedron"}
MaterialTags ==
    {"basic", "standard", "phong", "lambert", "toon", "normal", "shader"}
LightTags == {"ambient", "directional", "point", "spot", "hemisphere"}

UnknownTag(v, tags) == ~(v[1] = "str" /\ v[2] \in tags)

\* the record has the two members the objects effect dereferences
Buildable(obj) ==
    ~IsNullish(GetProp(obj, "geometry")) /\ ~IsNullish(GetProp(obj, "material"))

\* C22: a record whose geometry type, material type or light type is not a
\* known tag is built without an error, as the unit cube, the basic
\* material and an ambient light; an effect fails only on a record that
\* lacks its geometry or its material.
C22_UnknownKindsDefault ==
    /\ (lastSync.ranObjects /\ objectsVer = objectsSeen) =>
          /\ lastSync.failed =>
                \E k \in DOMAIN objects : ~Buildable(objects[k])
          /\ \A k \in DOMAIN objects :
                (Buildable(objects[k]) /\ ~lastSync.failed) =>
                    /\ GetProp(objects[k], "id") \in DOMAIN meshesRef
                    /\ UnknownTag(GetProp(GetProp(objects[k], "geometry"), "type"),
                                  GeometryTags) =>
                           meshesRef[GetProp(objects[k], "id")].geometry = "box"
                    /\ UnknownTag(GetProp(GetProp(objects[k], "material"), "type"),
                                  MaterialTags) =>
                           meshesRef[GetProp(objects[k], "id")].material = "basic"
    /\ (lastSync.ranLights /\ lightsVer = lightsSeen) =>
          \A k \in DOMAIN lights :
              /\ GetProp(lights[k], "id") \in DOMAIN lightsRef
              /\ (UnknownTag(GetProp(lights[k], "type"), LightTags)
                     /\ GetProp(lights[k], "id") \in lastSync.createdLights) =>
                    lightsRef[GetProp(lights[k], "id")].kind = "ambient"

\* a cube with the basic material and an ambient light have been built for
\* the tags blob, glass and laser
C22_Witness ==
    /\ objectsVer = objectsSeen /\ lightsVer = lightsSeen /\ ~crashed
    /\ Lookup(objects, "k") = BlobK
    /\ Lookup(lights, "l") = LaserL
    /\ Str("k") \in lastSync.createdMeshes
    /\ Str("l") \in lastSync.createdLights
    /\ Str("k") \in DOMAIN meshesRef
    /\ Str("l") \in DOMAIN lightsRef
    /\ meshesRef[Str("k")].geometry = "box"
    /\ meshesRef[Str("k")].material = "basic"
    /\ lightsRef[Str("l")].kind = "ambient"

\* C23: every entry of the objects mapping is stored under the key that is
\* the id of its record, and so is every entry of the lights mapping.
C23_KeyIsRecordId ==
    /\ \A k \in DOMAIN objects : GetProp(objects[k], "id") = Str(k)
    /\ \A k \in DOMAIN lights : GetProp(lights[k], "id") = Str(k)

\* C24: after a reconciliation of the objects slice, a failure on one
\* record included, every record of the document that can be built has its
\* mesh in the live map.
C24_FailureSkipsEntity ==
    (lastSync.ranObjects /\ objectsVer = objectsSeen) =>
        \A k \in DOMAIN objects :
            Buildable(objects[k]) =>
                GetProp(objects[k], "id") \in DOMAIN meshesRef

(***************************************************************************)
(* Properties of the animation clocks across reconciliations               *)
(***************************************************************************)
\* the transform the document gives a record
DocPosition(obj) == VectorOf(GetProp(obj, "position"), <<0, 0, 0>>)
DocScale(obj) == VectorOf(GetProp(obj, "scale"), <<100, 100, 100>>)

\* the objects effect was the latest step of the component on the meshes
JustReconciled ==
    /\ lastSync.ranObjects /\ ~crashed
    /\ objectsVer = objectsSeen /\ deltas = <<>>

\* C25: an objects effect leaves the elapsed time of the clock of every
\* animated record as it was and sets the baseline of the clock to the
\* position and scale of the record; the frames after it place a floating
\* mesh at the new baseline plus the offset of the continued time.
C25_BaselineResetKeepsElapsed ==
    \A k \in DOMAIN objectConfigsRef :
        LET obj  == objectConfigsRef[k]
            id   == GetProp(obj, "id")
            anim == GetProp(obj, "animation")
        IN /\ (JustReconciled /\ Truthy(anim)
                 /\ id \in DOMAIN lastSync.clocksBefore) =>
                  /\ id \in DOMAIN animationStatesRef
                  /\ animationStatesRef[id].time = lastSync.clocksBefore[id].time
                  /\ animationStatesRef[id].initialPosition = DocPosition(obj)
                  /\ animationStatesRef[id].initialScale = DocScale(obj)
           /\ (~crashed /\ deltas # <<>> /\ id \in DOMAIN animationStatesRef
                 /\ GetProp(anim, "type") = Str("float")) =>
                  /\ animationStatesRef[id].initialPosition = DocPosition(obj)
                  /\ meshesRef[id].position =
                        [DocPosition(obj) EXCEPT
                            ![2] = @ + Mul(Sin(animationStatesRef[id].time),
                                           NumberOr(anim, "amplitude", 30))]

\* the clock of m had run for some time when a patch moved m; after the
\* effect and one more frame the clock has gone on and the mesh floats
\* about the new position
C25_Witness ==
    /\ ~crashed /\ lastSync.ranObjects /\ Len(deltas) = 1
    /\ Str("m") \in DOMAIN lastSync.clocksBefore
    /\ Str("m") \in DOMAIN animationStatesRef
    /\ Lookup(objectConfigsRef, "m") =
          Obj([id |-> Str("m"), geometry |-> Obj([type |-> Str("torus")]),
               material |-> Obj([type |-> Str("phong")]),
               position |-> Vec("1", "2", "3"), scale |-> Vec("2", "2", "1"),
               animation |-> Obj([type |-> Str("float")])])
    /\ lastSync.clocksBefore[Str("m")].time > 0
    /\ lastSync.clocksBefore[Str("m")].initialScale = <<100, 100, 100>>
    /\ animationStatesRef[Str("m")].initialScale = <<200, 200, 100>>
    /\ lastSync.clocksBefore[Str("m")].initialPosition = <<200, 100, 300>>
    /\ animationStatesRef[Str("m")].initialPosition = <<100, 200, 300>>
    /\ animationStatesRef[Str("m")].time
          = lastSync.clocksBefore[Str("m")].time + Elapsed
    /\ meshesRef[Str("m")].position[2] # 200

\* C26: an object whose record never had an animation other than none has
\* no clock, and the frames leave its mesh as the objects effect built it.
C26_NoClockWithoutAnimation ==
    \A id \in {Str("s"), Str("liquid-gradient")} :
        /\ id \notin DOMAIN animationStatesRef
        /\ id \in DOMAIN meshesRef =>
              /\ ~Animated(id)
              /\ meshesRef[id] = BuiltMesh(id)

\* frames have passed over the mesh of s, which is as it was built, while
\* the clock of m runs
C26_Witness ==
    /\ Str("s") \in DOMAIN meshesRef
    /\ Len(deltas) >= 2
    /\ Lookup(objectConfigsRef, "s") = NoneS
    /\ meshesRef[Str("s")] = BuiltMesh(Str("s"))
    /\ Str("m") \in DOMAIN animationStatesRef
    /\ Str("s") \notin DOMAIN animationStatesRef

(***************************************************************************)
(* Properties of the order of the operations of a commit                   *)
(***************************************************************************)
\* C27: in the operations of one commit no removal of a slice follows a
\* construction or update of the same slice, and no operation on the
\* objects follows an operation on the lights.
C27_RemovalsFirstObjectsFirst ==
    \A i, j \in DOMAIN lastSync.log :
        i < j =>
            /\ ~(/\ lastSync.log[i][1] = lastSync.log[j][1]
                 /\ lastSync.log[i][2] = "upsert"
                 /\ lastSync.log[j][2] = "remove")
            /\ ~(/\ lastSync.log[i][1] = "lights"
                 /\ lastSync.log[j][1] = "objects")

\* one change of the document (resetScene) has removed and kept entries of
\* both slices
C27_Witness ==
    /\ lastCmd = Cmd([action |-> Str("resetScene")])
    /\ lastSync.ranObjects /\ lastSync.ranLights /\ ~lastSync.failed
    /\ lastSync.removedMeshes # {} /\ lastSync.removedLights # {}
    /\ lastSync.log = <<<<"objects", "remove">>, <<"objects", "upsert">>,
                        <<"lights", "remove">>, <<"lights", "upsert">>>>

(***************************************************************************)
(* Properties of the extractor on cut and padded blocks                    *)
(***************************************************************************)
\* C29: when the close tag arrives while an object is open, no command is
\* emitted for the open object, outside of a block the depth is 0 and the
\* capture buffer is empty, and the whole stream yields the well-formed
\* objects of its blocks, those of the following block included.
C29_CutShortObjectDropped ==
    /\ \A i \in DOMAIN emitted :
          \E k \in BlockObjects :
              /\ plan[k] \notin CutObjects
              /\ PieceEnd(k) = emittedAt[i]
              /\ emitted[i] = ValueOf(plan[k])
    /\ ~insideBlock => (braceDepth = 0 /\ jsonBuffer = <<>>)
    /\ Done => emitted = ValuesOf(BlockObjects, 1)

\* the first block was closed inside a string of its second object; its
\* first object and the object of the second block are the commands
C29_Witness ==
    /\ Done /\ ~raised /\ ~insideBlock
    /\ SubSeq(plan, 1, 4) = <<"OPEN", "objA", "cutS", "CLOSE">>
    /\ plan[7] = "objN"
    /\ emitted = <<ValueOf("objA"), ValueOf("objN")>>

\* the stream without the pieces between its objects
Adjacent == SelectSeq(plan, LAMBDA n : n \in ObjectPieces \cup {"OPEN", "CLOSE"})

\* no piece between the objects is a lone quote or a lone closing brace
InertPadding == \A i \in DOMAIN plan : plan[i] \notin {"\"", "}"}

\* C30: every emitted command is the value of one object of the block, its
\* text captured from its own opening brace, whatever characters stand at
\* depth 0 around it; a block that is an array of objects, or has white
\* space, strings or letters between its objects, yields the commands of
\* the same objects written adjacently.
C30_DepthZeroCharactersInert ==
    /\ \A i \in DOMAIN emitted :
          \E k \in BlockObjects :
              PieceEnd(k) = emittedAt[i] /\ emitted[i] = ValueOf(plan[k])
    /\ (Done /\ InertPadding) =>
          /\ emitted = addChunk(NewParser, Flatten(Adjacent)).commands
          /\ Len(emitted) = Cardinality(BlockObjects)

\* the array [{"a":{"d":"}"}},{"a":"\""}] has yielded its two elements
C30_Witness ==
    /\ Done /\ ~raised
    /\ plan = <<"OPEN", "[", "objN", ",", "objE", "]", "CLOSE">>
    /\ emitted = <<ValueOf("objN"), ValueOf("objE")>>
    /\ Adjacent = <<"OPEN", "objN", "objE", "CLOSE">>

(***************************************************************************)
(* Properties of the camera auto-rotation                                  *)
(***************************************************************************)
\* the step is a frame
IsFrame == Len(deltas') = Len(deltas) + 1

\* the square of the distance of the live camera from the look-at point in
\* the horizontal plane
OrbitDistance2(position, cam) ==
    (position[1] - LookAtOf(cam)[1]) * (position[1] - LookAtOf(cam)[1])
    + (position[3] - LookAtOf(cam)[3]) * (position[3] - LookAtOf(cam)[3])

\* C28: a frame under auto-rotation leaves the camera record, the radius
\* and the height of the orbit as they are, advances the angle by the
\* delta times 0.3 times the speed, and puts the camera at the height and
\* at the radius of the orbit from the look-at point, both as derived from
\* the configured position; the clocks of the frame are those of the
\* animated meshes alone, each advanced by the delta times the speed of
\* its own animation, with its baseline kept.
C28_AutoRotateOrbitsOnly ==
    [][(IsFrame /\ Truthy(GetProp(cameraConfigRef, "autoRotate"))) =>
          /\ cameraConfigRef' = cameraConfigRef
          /\ cameraOrbitRadiusRef' = cameraOrbitRadiusRef
          /\ cameraOrbitHeightRef' = cameraOrbitHeightRef
          /\ cameraOrbitRadiusRef * cameraOrbitRadiusRef
                = OrbitDistance2(VectorOf(GetProp(cameraConfigRef, "position"),
                                          <<0, 0, 0>>), cameraConfigRef)
          /\ cameraOrbitAngleRef' - cameraOrbitAngleRef
                = deltas'[Len(deltas')]
                    * Mul(NumberOr(cameraConfigRef, "autoRotateSpeed", 100), 30)
          /\ threeCamera'[2]
                = VectorOf(GetProp(cameraConfigRef, "position"), <<0, 0, 0>>)[2]
          /\ OrbitDistance2(threeCamera', cameraConfigRef)
                = cameraOrbitRadiusRef * cameraOrbitRadiusRef
          /\ DOMAIN animationStatesRef'
                = DOMAIN animationStatesRef
                    \cup {id \in DOMAIN meshesRef : Animated(id)}
          /\ \A id \in DOMAIN animationStatesRef :
                /\ animationStatesRef'[id].initialPosition
                      = animationStatesRef[id].initialPosition
                /\ animationStatesRef'[id].initialScale
                      = animationStatesRef[id].initialScale
                /\ animationStatesRef'[id].time - animationStatesRef[id].time
                      = IF id \in DOMAIN meshesRef /\ Animated(id)
                        THEN deltas'[Len(deltas')]
                               * (NumberOr(GetProp(ConfigOf(id), "animation"),
                                           "speed", 100) \div 100)
                        ELSE 0]_vars

\* frames have turned the camera about the look-at point (3, 0, 1) at the
\* radius 3 and the height 1 of the position (3, 1, 4), away from that
\* position, while the clock of m ran
C28_Witness ==
    /\ ~crashed /\ cameraVer = cameraSeen /\ deltas # <<>>
    /\ Truthy(GetProp(cameraConfigRef, "autoRotate"))
    /\ cameraOrbitRadiusRef = 300 /\ cameraOrbitHeightRef = 100
    /\ cameraOrbitAngleRef > 300
    /\ threeCamera \notin {<<300, 100, 400>>, <<0, 0, 0>>}
    /\ threeCamera[2] = 100
    /\ OrbitDistance2(threeCamera, cameraConfigRef) = 90000
    /\ Str("m") \in DOMAIN animationStatesRef
    /\ animationStatesRef[Str("m")].time = Elapsed

(***************************************************************************)
(* The streaming pipeline: POST's loop over result.fullStream (route.ts    *)
(* 181-244) writes parts to the response stream, and the client's onData   *)
(* (part_000 142-148) handles the parts in the order of their arrival.     *)
(* The loop goes on after an error part; the model's stream holds at most  *)
(* one error part and ends with its finish part.                           *)
(***************************************************************************)
RECURSIVE Join(_)
\* the string made of a sequence of characters
Join(cs) == IF cs = <<>> THEN "" ELSE cs[1] \o Join(Tail(cs))

\* dataPart.data as SceneCommand: the value JSON.parse built, as the store
\* reads it
RECURSIVE AsSceneCommand(_)
AsSceneCommand(v) ==
    CASE v[1] = "str" -> Str(Join(v[2]))
      [] v[1] = "arr" -> Arr([i \in DOMAIN v[2] |-> AsSceneCommand(v[2][i])])
      [] v[1] = "obj" ->
           Obj([k \in {Join(name) : name \in DOMAIN v[2]} |->
                  AsSceneCommand(v[2][CHOOSE name \in DOMAIN v[2] :
                                          Join(name) = k])])
      [] OTHER -> Undefined

\* variant: the commands of one call are written last first
CommandParts_Reversed(commands) ==
    [i \in 1..Len(commands) |->
        [type |-> "data-scene-command",
         data |-> commands[Len(commands) + 1 - i]]]

\* for (const command of newCommands) writer.write({type, data: command})
CommandParts(commands) ==
    [i \in 1..Len(commands) |->
        [type |-> "data-scene-command", data |-> commands[i]]]

\* the loop runs until the finish part, the last part of fullStream, is
\* written
Streaming == written[Len(written)].type # "finish"

\* the fragments of the model's stream end at the end or in the middle of a
\* piece of the plan
CutPoints ==
    {PieceEnd(k) : k \in 1..Len(plan)}
      \cup {PieceEnd(k - 1) + (PieceEnd(k) - PieceEnd(k - 1)) \div 2 :
              k \in 1..Len(plan)}
\* a fragment ends at one of the next MaxSpan cut points
MaxSpan == 3
NextCuts(b) ==
    {c \in CutPoints :
        c > b /\ Cardinality({d \in CutPoints : d > b /\ d < c}) < MaxSpan}

\* case "text-delta": the fragment is forwarded, fed to the parser, and the
\* commands the call returns are written
TextDelta(n) ==
    /\ Streaming
    /\ ParserAddChunk(n)
    /\ written' = written
           \o (IF textStarted THEN <<>> ELSE <<[type |-> "text-start"]>>)
           \o <<[type |-> "text-delta",
                 delta |-> SubSeq(Text, Len(buffer) + 1, Len(buffer) + n)]>>
           \o CommandParts(SubSeq(emitted', Len(emitted) + 1, Len(emitted')))
    /\ textStarted' = TRUE
    /\ UNCHANGED <<clientAt, applied>>

\* case "finish": text-end when text was started, then the finish part
Finish ==
    /\ Streaming
    /\ Len(buffer) = Len(Text)
    /\ written' = written
           \o (IF textStarted THEN <<[type |-> "text-end"]>> ELSE <<>>)
           \o <<[type |-> "finish"]>>
    /\ UNCHANGED <<streamVars, parserVars, storeVars, sceneVars,
                   textStarted, clientAt, applied>>

\* case "error": the error is forwarded and the loop takes the next part
StreamError ==
    /\ Streaming
    /\ \A i \in DOMAIN written : written[i].type # "error"
    /\ written' = Append(written, [type |-> "error"])
    /\ UNCHANGED <<streamVars, parserVars, storeVars, sceneVars,
                   textStarted, clientAt, applied>>

\* onData(dataPart) for the next part of the response: a scene command is
\* applied to the store, any other part leaves the store alone
Receive ==
    /\ clientAt < Len(written)
    /\ clientAt' = clientAt + 1
    /\ \E dataPart \in {written[clientAt + 1]} :
          IF dataPart.type = "data-scene-command"
          THEN /\ StoreApply(AsSceneCommand(dataPart.data))
               /\ applied' = Append(applied, dataPart.data)
          ELSE UNCHANGED <<streamVars, parserVars, storeVars, sceneVars,
                           applied>>
    /\ UNCHANGED <<written, textStarted>>

\* replies of the model: text, then a block of one or two commands the
\* dispatcher accepts, then text
PipeCommands == {"cmdClear", "cmdSun"}
PipelinePlans ==
    {<<"x", "OPEN", a, "CLOSE", "y">> : a \in PipeCommands}
      \cup {<<"OPEN", a, b, "CLOSE">> : a, b \in PipeCommands}

InitPipeline == StartOf(PipelinePlans)
NextPipeline ==
    \/ \E c \in NextCuts(Len(buffer)) : TextDelta(c - Len(buffer))
    \/ Finish
    \/ StreamError
    \/ Receive
SpecPipeline == InitPipeline /\ [][NextPipeline]_vars

\* the parts of one type the server has written / the client has handled
PartsOf(parts, type) == SelectSeq(parts, LAMBDA part : part.type = type)
RECURSIVE Concat(_)
Concat(ss) == IF ss = <<>> THEN <<>> ELSE ss[1] \o Concat(Tail(ss))
DeltasOf(parts) ==
    LET ds == PartsOf(parts, "text-delta")
    IN Concat([i \in 1..Len(ds) |-> ds[i].delta])
DataOf(parts) ==
    LET ds == PartsOf(parts, "data-scene-command")
    IN [i \in 1..Len(ds) |-> ds[i].data]
RECURSIVE ApplyAll(_, _)
ApplyAll(st, commands) ==
    IF commands = <<>> THEN st
    ELSE ApplyAll(applyCommand(st, AsSceneCommand(commands[1])),
                  Tail(commands))

\* C21: the text deltas written so far are, in order, the text fed to the
\* parser, a prefix of the reply; the command parts written so far are, in
\* order, the commands the parser has returned, each once; the j-th command
\* part follows the text delta that holds the closing brace of the j-th
\* command, with no text delta between them; and the client has applied, in
\* order and each once, the command parts among the parts it has handled, so
\* that the store holds the initial document with those commands applied.
C21_PipelineOnceInOrder ==
    /\ ~raised
    /\ DeltasOf(written) = buffer
    /\ buffer = SubSeq(Text, 1, Len(buffer))
    /\ DataOf(written) = emitted
    /\ \A i \in 1..Len(written) :
          written[i].type = "data-scene-command" =>
             LET j == Len(DataOf(SubSeq(written, 1, i)))
                 d == CHOOSE k \in 1..i :
                         /\ written[k].type = "text-delta"
                         /\ \A m \in (k + 1)..i :
                               written[m].type = "data-scene-command"
                 end == Len(DeltasOf(SubSeq(written, 1, d)))
             IN /\ \E k \in 1..i : /\ written[k].type = "text-delta"
                                   /\ \A m \in (k + 1)..i :
                                        written[m].type = "data-scene-command"
                /\ emittedAt[j] <= end
                /\ emittedAt[j] > end - Len(written[d].delta)
    /\ applied = DataOf(SubSeq(written, 1, clientAt))
    /\ ~threw
    /\ Doc = DocOf(ApplyAll([objects |-> INITIAL_STATE.objects,
                             lights |-> INITIAL_STATE.lights,
                             camera |-> INITIAL_STATE.camera,
                             config |-> INITIAL_STATE.config,
                             threw |-> FALSE], applied))

\* a reply with two commands was streamed in fragments that cut its pieces,
\* both commands came back from one call, and the client has applied both
C21_Witness ==
    /\ ~Streaming
    /\ clientAt = Len(written)
    /\ Len(applied) = 2
    /\ applied[1] # applied[2]
    /\ Len(PartsOf(written, "text-delta")) >= 3
    /\ \E i \in 1..(Len(written) - 1) :
          /\ written[i].type = "data-scene-command"
          /\ written[i + 1].type = "data-scene-command"
    /\ Doc # DocOf(INITIAL_STATE)

(***************************************************************************)
(* Properties of the string and escape tracking of the extractor           *)
(***************************************************************************)
\* C39: inside a block and between objects (brace depth 0) the extractor is
\* never in quoted-string mode, and a block whose objects have quotes
\* between them, and no stray closing brace, yields every one of its
\* objects.
C39_QuoteAtDepthZeroIgnored ==
    (\A i \in DOMAIN plan : plan[i] # "}") =>
        /\ (insideBlock /\ braceDepth = 0) => ~inString
        /\ Done => emitted = ValuesOf(BlockObjects, 1)

\* the cursor stands off characters into piece k of the stream
InPiece(k, off) == processedIndex = PieceEnd(k - 1) + off

\* C31: for every chunking of a block whose string values hold braces,
\* escaped quotes and escaped backslashes, every object of the block is
\* emitted once, as its JSON value, by the call that receives its real
\* closing brace, and never before; after a brace inside a string the depth
\* is the depth before it, after the backslash the escape is armed and the
\* scanner is in the string, and after the escaped character the scanner is
\* still in the string with no escape pending.
C31_StringsHideBracesAndQuotes ==
    /\ \A i \in DOMAIN emitted :
          \E k \in BlockObjects :
              PieceEnd(k) = emittedAt[i] /\ emitted[i] = ValueOf(plan[k])
    /\ \A k \in BlockObjects :
          Cardinality({i \in DOMAIN emittedAt : emittedAt[i] = PieceEnd(k)})
              = IF processedIndex >= PieceEnd(k) THEN 1 ELSE 0
    /\ \A k \in DOMAIN plan :
          /\ (plan[k] = "objN" /\ InPiece(k, 12)) =>
                (braceDepth = 2 /\ inString /\ ~escapeNext)
          /\ (plan[k] = "objB" /\ InPiece(k, 7)) =>
                (braceDepth = 1 /\ inString /\ ~escapeNext)
          /\ (plan[k] = "objB" /\ InPiece(k, 8)) => (inString /\ escapeNext)
          /\ (plan[k] = "objB" /\ InPiece(k, 9)) => (inString /\ ~escapeNext)
          /\ (plan[k] = "objB" /\ InPiece(k, 10)) =>
                (braceDepth = 1 /\ inString)
          /\ (plan[k] = "objE" /\ InPiece(k, 7)) => (inString /\ escapeNext)
          /\ (plan[k] = "objE" /\ InPiece(k, 8)) => (inString /\ ~escapeNext)
          /\ (plan[k] = "objS" /\ InPiece(k, 8)) => (inString /\ ~escapeNext)
          /\ (plan[k] = "objS" /\ InPiece(k, 9)) => ~inString

\* a fragment has ended between the backslash and the quote it escapes in
\* {"a":"{\"}"}, after the object {"a":"\\"} was emitted
C31_Witness ==
    /\ plan = <<"OPEN", "objS", "objB", "CLOSE">>
    /\ Len(buffer) = PieceEnd(2) + 8
    /\ InPiece(3, 8)
    /\ escapeNext /\ inString /\ braceDepth = 1
    /\ emitted = <<JObj(<< <<<<"a">>, JStr(<<"\\">>)>> >>)>>
    /\ ValueOf("objB") = JObj(<< <<<<"a">>, JStr(<<"{", "\"", "}">>)>> >>)

\* the tag pieces of one kind that the cursor has passed
TagsPassed(tag) ==
    {k \in DOMAIN plan : plan[k] = tag /\ PieceEnd(k) <= processedIndex}
FirstClose == CHOOSE k \in DOMAIN plan :
                  plan[k] = "CLOSE" /\ \A j \in 1..(k - 1) : plan[j] # "CLOSE"

\* C40: the extractor is inside a block exactly when the cursor has passed
\* more open tags than close tags, whatever the string and escape flags were
\* when the close tag arrived; right after an open tag both flags are off,
\* the depth is 0 and the capture is empty; and the commands emitted after
\* the first close tag are those a new extractor gives for the text that
\* follows that tag.
C40_CloseTagAnywhereFlagsReset ==
    /\ insideBlock
          = (Cardinality(TagsPassed("OPEN")) > Cardinality(TagsPassed("CLOSE")))
    /\ \A k \in TagsPassed("OPEN") :
          processedIndex = PieceEnd(k) =>
             (~inString /\ ~escapeNext /\ braceDepth = 0 /\ jsonBuffer = <<>>)
    /\ Done =>
          SelectSeq([i \in DOMAIN emitted |-> <<emittedAt[i], emitted[i]>>],
                    LAMBDA e : e[1] > PieceEnd(FirstClose))
            = [i \in DOMAIN addChunk(NewParser,
                               SubSeq(Text, PieceEnd(FirstClose) + 1,
                                      Len(Text))).commands |->
                 <<PieceEnd(FirstClose)
                     + addChunk(NewParser,
                                SubSeq(Text, PieceEnd(FirstClose) + 1,
                                       Len(Text))).closedAt[i],
                   addChunk(NewParser,
                            SubSeq(Text, PieceEnd(FirstClose) + 1,
                                   Len(Text))).commands[i]>>]

\* the first block was closed with a string open and an escape pending, the
\* flags were carried out of the block, and the object of the second block
\* is the only command
C40_Witness ==
    /\ Done /\ ~raised /\ ~insideBlock
    /\ SubSeq(plan, 1, 3) = <<"OPEN", "cutE", "CLOSE">>
    /\ plan[6] = "objE"
    /\ emitted = <<ValueOf("objE")>>
    /\ emittedAt = <<PieceEnd(6)>>

(***************************************************************************)
(* Properties of the slices of the document                                *)
(***************************************************************************)
\* C35: a command leaves the slices of the document it is not about as they
\* were: the three object commands leave lights, camera and config, the
\* three light commands leave objects, camera and config, setCamera leaves
\* objects, lights and config, setConfig leaves objects, lights and camera.
C35_CommandChangesOwnSlice ==
    /\ (IsAction("addObject") \/ IsAction("updateObject")
            \/ IsAction("removeObject"))
          => (/\ lights = prevDoc.lights
              /\ camera = prevDoc.camera
              /\ config = prevDoc.config)
    /\ (IsAction("addLight") \/ IsAction("updateLight")
            \/ IsAction("removeLight"))
          => (/\ objects = prevDoc.objects
              /\ camera = prevDoc.camera
              /\ config = prevDoc.config)
    /\ IsAction("setCamera")
          => (/\ objects = prevDoc.objects
              /\ lights = prevDoc.lights
              /\ config = prevDoc.config)
    /\ IsAction("setConfig")
          => (/\ objects = prevDoc.objects
              /\ lights = prevDoc.lights
              /\ camera = prevDoc.camera)

\* setConfig has changed the config of a document whose objects, lights and
\* camera earlier commands had changed
C35_Witness ==
    /\ IsAction("setConfig") /\ ~threw
    /\ config # prevDoc.config
    /\ camera # INITIAL_STATE.camera
    /\ objects # INITIAL_STATE.objects
    /\ lights = prevDoc.lights /\ camera = prevDoc.camera
    /\ objects = prevDoc.objects

(***************************************************************************)
(* Properties of the live lights and of the live resources                 *)
(***************************************************************************)
\* C37: after a lights reconciliation, and until the lights mapping is
\* replaced again, every live light whose id is in the lights mapping is of
\* the kind that the factory builds for the type of that record.
C37_LiveLightKindIsDocumentType ==
    (lastSync.ranLights /\ lightsSeen = lightsVer) =>
        \A id \in DOMAIN lightsRef :
            (id[1] = "str" /\ id[2] \in DOMAIN lights) =>
                lightsRef[id].kind = createLight(lights[id[2]]).kind

(***************************************************************************)
(* Properties of the live transforms across reconciliations                *)
(***************************************************************************)
\* C38: an objects reconciliation leaves the live rotation of every mesh
\* whose record is the one of the previous reconciliation as the frames
\* left it.
C38_RotationKeptAcrossReconciliation ==
    [][(objectsSeen' # objectsSeen /\ ~crashed') =>
          \A id \in DOMAIN meshesRef :
             (/\ id[1] = "str"
              /\ id[2] \in DOMAIN objectConfigsRef
              /\ id[2] \in DOMAIN objects
              /\ objects[id[2]] = objectConfigsRef[id[2]]
              /\ id \in DOMAIN meshesRef') =>
                meshesRef'[id].rotation = meshesRef[id].rotation]_vars

\* C36: in every state of every interleaving of commands, frames and
\* reconciliations, each id that has an animation clock has a mesh in the
\* live mesh map.
C36_ClocksOnlyForLiveMeshes ==
    DOMAIN animationStatesRef \subseteq DOMAIN meshesRef

\* frames had run the clock of m, then a reconciliation removed the mesh of
\* m and its clock while the mesh of s stayed
C36_Witness ==
    /\ lastSync.ranObjects /\ ~crashed
    /\ Str("m") \in lastSync.removedMeshes
    /\ Str("m") \in DOMAIN lastSync.clocksBefore
    /\ lastSync.clocksBefore[Str("m")].time > 0
    /\ Str("m") \notin DOMAIN animationStatesRef
    /\ Str("m") \notin DOMAIN meshesRef
    /\ Str("s") \in DOMAIN meshesRef

\* the ids of the records of the objects mapping the latest objects effect
\* has walked
RecordIds ==
    {GetProp(objectConfigsRef[k], "id") : k \in DOMAIN objectConfigsRef}

C34_NothingFedAfterStreamError ==
    /\ \A i, j \in DOMAIN written :
          (i < j /\ written[i].type = "error") =>
              written[j].type \notin {"text-delta", "data-scene-command"}
    /\ Doc = DocOf(ApplyAll([objects |-> INITIAL_STATE.objects,
                             lights |-> INITIAL_STATE.lights,
                             camera |-> INITIAL_STATE.camera,
                             config |-> INITIAL_STATE.config,
                             threw |-> FALSE],
                            DataOf(SubSeq(written, 1, clientAt))))

====
